---------------------------- MODULE Spec2Model ----------------------------
(***************************************************************************)
(* Model of scripts/fetch_touchpoints.py: the batch run of main() over the *)
(* customer list (normalise, sort, dedup, categorise, gap analysis) and    *)
(* the CRM client hubspot_get / hubspot_post.                              *)
(*                                                                         *)
(* Python strings are sequences of one-character strings, so that slicing, *)
(* length, concatenation, lexicographic comparison and ISO parsing are     *)
(* computed as the code computes them.  Python's None is the value None.   *)
(***************************************************************************)
EXTENDS Integers, Sequences, FiniteSets, TLC

\* ------------------------------------------------------------------------
\* Strings
\* ------------------------------------------------------------------------

\* Python's None (no character has more than one letter, so None is no string).
None == <<"None">>

\* bool(x) of a str-or-None value.
Truthy(x) == x # None /\ x # <<>>

\* x or y
OrElse(x, y) == IF Truthy(x) THEN x ELSE y

\* The elements of a sequence.
Range(seq) == {seq[k] : k \in 1..Len(seq)}

\* s[:n]
Prefix(s, n) == IF Len(s) <= n THEN s ELSE SubSeq(s, 1, n)

\* c * n
Rep(c, n) == [i \in 1..n |-> c]

\* Code points of the characters that occur in the date strings of the model.
Ord(c) ==
    CASE c = " " -> 32 [] c = "+" -> 43 [] c = "-" -> 45 [] c = "." -> 46
      [] c = "/" -> 47 [] c = "0" -> 48 [] c = "1" -> 49 [] c = "2" -> 50
      [] c = "3" -> 51 [] c = "4" -> 52 [] c = "5" -> 53 [] c = "6" -> 54
      [] c = "7" -> 55 [] c = "8" -> 56 [] c = "9" -> 57 [] c = ":" -> 58
      [] c = "A" -> 65 [] c = "N" -> 78 [] c = "T" -> 84 [] c = "Z" -> 90

\* a < b on str: the first differing character decides, a proper prefix is smaller.
RECURSIVE StrLess(_, _)
StrLess(a, b) ==
    IF b = <<>> THEN FALSE
    ELSE IF a = <<>> THEN TRUE
    ELSE IF Head(a) = Head(b) THEN StrLess(Tail(a), Tail(b))
    ELSE Ord(Head(a)) < Ord(Head(b))

\* needle in hay
RECURSIVE Contains(_, _)
Contains(hay, needle) ==
    IF Len(needle) > Len(hay) THEN FALSE
    ELSE IF SubSeq(hay, 1, Len(needle)) = needle THEN TRUE
    ELSE Contains(Tail(hay), needle)

Whitespace == {" ", "\n", "\r", "\t"}

RECURSIVE LStrip(_)
LStrip(s) == IF s # <<>> /\ Head(s) \in Whitespace THEN LStrip(Tail(s)) ELSE s

RECURSIVE RStrip(_)
RStrip(s) ==
    IF s # <<>> /\ s[Len(s)] \in Whitespace THEN RStrip(SubSeq(s, 1, Len(s) - 1)) ELSE s

\* s.strip()
Strip(s) == RStrip(LStrip(s))

\* s.split(): the maximal runs of characters that are not white space
RECURSIVE Split(_)
Split(s) ==
    LET t == LStrip(s) IN
    IF t = <<>> THEN <<>>
    ELSE LET n == CHOOSE k \in 1..Len(t) :
                    /\ \A m \in 1..k : t[m] \notin Whitespace
                    /\ k = Len(t) \/ t[k + 1] \in Whitespace
         IN  <<SubSeq(t, 1, n)>> \o Split(SubSeq(t, n + 1, Len(t)))

\* s.split(sep) for a separator that is not empty: the parts between its
\* occurrences, found from the left
RECURSIVE SplitOn(_, _)
SplitOn(s, sep) ==
    LET hits == {k \in 1..(Len(s) - Len(sep) + 1) : SubSeq(s, k, k + Len(sep) - 1) = sep} IN
    IF hits = {} THEN <<s>>
    ELSE LET i == CHOOSE k \in hits : \A m \in hits : k <= m
         IN  <<SubSeq(s, 1, i - 1)>> \o SplitOn(SubSeq(s, i + Len(sep), Len(s)), sep)

\* ------------------------------------------------------------------------
\* Dates: datetime.fromisoformat(s.replace("Z", "+00:00"))
\* ------------------------------------------------------------------------

\* s.replace("Z", "+00:00"): every Z, the first one first
RECURSIVE ReplaceZ(_)
ReplaceZ(s) ==
    LET zs == {k \in 1..Len(s) : s[k] = "Z"} IN
    IF zs = {} THEN s
    ELSE LET i == CHOOSE k \in zs : \A m \in zs : k <= m
         IN  SubSeq(s, 1, i - 1) \o <<"+", "0", "0", ":", "0", "0">>
               \o ReplaceZ(SubSeq(s, i + 1, Len(s)))

\* The decimal digits and their values.
Digits == <<"0", "1", "2", "3", "4", "5", "6", "7", "8", "9">>

DigitOf == [c \in Range(Digits) |-> (CHOOSE k \in 1..10 : Digits[k] = c) - 1]

DigitVal(c) == DigitOf[c]

IsDigit(c) == c \in DOMAIN DigitOf

\* s[i..j] is all digits
AllDigits(s, i, j) == \A k \in i..j : IsDigit(s[k])

\* int(s[i..j]) for digits
RECURSIVE Num(_, _, _)
Num(s, i, j) ==
    IF j < i THEN 0
    ELSE IF j = i THEN DigitVal(s[i])
    ELSE IF j = i + 1 THEN DigitVal(s[i]) * 10 + DigitVal(s[j])
    ELSE Num(s, i, j - 2) * 100 + DigitVal(s[j - 1]) * 10 + DigitVal(s[j])

IsLeap(y) == (y % 4 = 0 /\ y % 100 # 0) \/ y % 400 = 0

DaysInMonth(y, m) ==
    IF m = 2 THEN (IF IsLeap(y) THEN 29 ELSE 28)
    ELSE IF m \in {4, 6, 9, 11} THEN 30 ELSE 31

\* Days from 2000-01-01 to y-m-d in the proleptic Gregorian calendar.
DaysFromCivil(y, m, d) ==
    LET yy  == IF m <= 2 THEN y - 1 ELSE y
        era == yy \div 400
        yoe == yy - era * 400
        mp  == IF m > 2 THEN m - 3 ELSE m + 9
        doy == (153 * mp + 2) \div 5 + d - 1
        doe == yoe * 365 + yoe \div 4 - yoe \div 100 + doy
    IN  era * 146097 + doe - 719468 - 10957

\* The result of a parse that raised ValueError.
Unparsable == [ok |-> FALSE, aware |-> FALSE, secs |-> 0, ms |-> 0]

\* "YYYY-MM-DD" at s[1..10], before the year, month and day are looked at
DateShape(s) ==
    /\ Len(s) >= 10
    /\ s[5] = "-" /\ s[8] = "-"
    /\ AllDigits(s, 1, 4) /\ AllDigits(s, 6, 7) /\ AllDigits(s, 9, 10)

\* "HH:MM:SS" at s[i..i+7], before the hour, minute and second are looked at
TimeShape(s, i) ==
    /\ Len(s) >= i + 7
    /\ AllDigits(s, i, i + 1) /\ s[i + 2] = ":" /\ AllDigits(s, i + 3, i + 4)
    /\ s[i + 5] = ":" /\ AllDigits(s, i + 6, i + 7)

\* "+HH:MM" or "-HH:MM" at s[i..i+5], the end of s
ZoneOk(s, i) ==
    /\ Len(s) = i + 5
    /\ s[i] \in {"+", "-"}
    /\ AllDigits(s, i + 1, i + 2) /\ s[i + 3] = ":" /\ AllDigits(s, i + 4, i + 5)
    /\ Num(s, i + 1, i + 2) <= 23 /\ Num(s, i + 4, i + 5) <= 59

\* The zone's offset from UTC in seconds.
ZoneSecs(s, i) ==
    (IF s[i] = "-" THEN -1 ELSE 1) * (Num(s, i + 1, i + 2) * 3600 + Num(s, i + 4, i + 5) * 60)

\* datetime.fromisoformat(s) for the shapes YYYY-MM-DD, YYYY-MM-DD?HH:MM:SS and
\* YYYY-MM-DD?HH:MM:SS.fff, the last two with an optional +HH:MM / -HH:MM zone
\* (? is any one separator character).  Every other string raises ValueError.
\* secs counts from 2000-01-01T00:00:00, in UTC for an aware value.
FromIso(s) ==
    IF ~DateShape(s) THEN Unparsable
    ELSE
      LET y   == Num(s, 1, 4)
          m   == Num(s, 6, 7)
          d   == Num(s, 9, 10)
          day == DaysFromCivil(y, m, d)
      IN
      IF ~(y >= 1 /\ m \in 1..12 /\ d \in 1..DaysInMonth(y, m)) THEN Unparsable
      ELSE IF Len(s) = 10
      THEN [ok |-> TRUE, aware |-> FALSE, secs |-> day * 86400, ms |-> 0]
      ELSE IF ~TimeShape(s, 12) THEN Unparsable
      ELSE
        LET hh   == Num(s, 12, 13)
            mm   == Num(s, 15, 16)
            ss   == Num(s, 18, 19)
            tod  == hh * 3600 + mm * 60 + ss
            frac == Len(s) >= 23 /\ s[20] = "." /\ AllDigits(s, 21, 23)
            ms   == IF frac THEN Num(s, 21, 23) ELSE 0
            z    == IF frac THEN 24 ELSE 20
        IN  IF ~(hh <= 23 /\ mm <= 59 /\ ss <= 59) THEN Unparsable
            ELSE IF Len(s) = z - 1
            THEN [ok |-> TRUE, aware |-> FALSE, secs |-> day * 86400 + tod, ms |-> ms]
            ELSE IF ZoneOk(s, z)
            THEN [ok |-> TRUE, aware |-> TRUE,
                  secs |-> day * 86400 + tod - ZoneSecs(s, z), ms |-> ms]
            ELSE Unparsable

\* The parse both days_between and the date formatters apply to a date field;
\* None has no .replace (AttributeError), which the callers' bare except catches too.
ParseDate(d) == IF d = None THEN Unparsable ELSE FromIso(ReplaceZ(d))

\* days_between: <<n>> for the int n, <<>> for None.  (dt2 - dt1).days is the
\* floor of the difference in days; subtracting a naive and an aware datetime
\* raises TypeError, caught by the bare except.
DaysApart(p1, p2) ==
    IF ~p1.ok \/ ~p2.ok \/ p1.aware # p2.aware THEN <<>>
    ELSE <<(p2.secs - p1.secs - (IF p2.ms < p1.ms THEN 1 ELSE 0)) \div 86400>>

days_between(d1, d2) == DaysApart(ParseDate(d1), ParseDate(d2))

\* truncate(text, max_len)
truncate(text, max_len) ==
    IF ~Truthy(text) THEN <<>>
    ELSE LET t == Strip([i \in 1..Len(text) |->
                            IF text[i] \in {"\n", "\r"} THEN " " ELSE text[i]])
         IN  IF Len(t) > max_len THEN SubSeq(t, 1, max_len) \o <<".", ".", ".">> ELSE t

\* ------------------------------------------------------------------------
\* String literals of the source
\* ------------------------------------------------------------------------

s_None == <<"N", "o", "n", "e">>
s_9999 == <<"9", "9", "9", "9">>
s_Unknown == <<"U", "n", "k", "n", "o", "w", "n">>
s_NA == <<"N", "/", "A">>
s_Zero == <<"0">>
s_created_Cognito ==
    <<" ", "c", "r", "e", "a", "t", "e", "d", " ", "C", "o", "g", "n", "i", "t", "o", " ", "a",
      "c", "c", "o", "u", "n", "t">>
s_Source == <<"S", "o", "u", "r", "c", "e", ":", " ">>
s_Bar == <<" ", "|", " ">>
s_Open == <<" ", "(">>
s_Close == <<")">>
s_URL == <<" ", "|", " ", "U", "R", "L", ":", " ">>
s_Referrer == <<" ", "|", " ", "R", "e", "f", "e", "r", "r", "e", "r", ":", " ">>
s_to_Lead ==
    <<" ", "l", "i", "f", "e", "c", "y", "c", "l", "e", " ", "s", "t", "a", "g", "e", " ", "c",
      "h", "a", "n", "g", "e", "d", " ", "t", "o", " ", "L", "e", "a", "d">>
s_to_Opportunity ==
    <<" ", "l", "i", "f", "e", "c", "y", "c", "l", "e", " ", "s", "t", "a", "g", "e", " ", "c",
      "h", "a", "n", "g", "e", "d", " ", "t", "o", " ", "O", "p", "p", "o", "r", "t", "u", "n",
      "i", "t", "y">>
s_to_Customer ==
    <<" ", "l", "i", "f", "e", "c", "y", "c", "l", "e", " ", "s", "t", "a", "g", "e", " ", "c",
      "h", "a", "n", "g", "e", "d", " ", "t", "o", " ", "C", "u", "s", "t", "o", "m", "e", "r">>
s_First_sales ==
    <<"F", "i", "r", "s", "t", " ", "s", "a", "l", "e", "s", " ", "a", "c", "t", "i", "v", "i",
      "t", "y", " ", "r", "e", "c", "o", "r", "d", "e", "d", " ", "f", "o", "r", " ">>
s_Most_recent ==
    <<"M", "o", "s", "t", " ", "r", "e", "c", "e", "n", "t", " ", "s", "a", "l", "e", "s", " ",
      "a", "c", "t", "i", "v", "i", "t", "y", " ", "f", "o", "r", " ">>
s_Meeting_with == <<"M", "e", "e", "t", "i", "n", "g", " ", "w", "i", "t", "h", " ">>
s_Form == <<"F", "o", "r", "m", ":", " ">>
s_added ==
    <<" ", "a", "d", "d", "e", "d", " ", "t", "o", " ", "H", "u", "b", "S", "p", "o", "t", " ",
      "C", "R", "M">>
s_created_Arda ==
    <<" ", "c", "r", "e", "a", "t", "e", "d", " ", "A", "r", "d", "a", " ", "a", "c", "c", "o",
      "u", "n", "t">>
s_LBr == <<"[">>
s_RBr == <<"]", " ">>
s_Email == <<"E", "m", "a", "i", "l">>
s_Call == <<"C", "a", "l", "l">>
s_Meeting == <<"M", "e", "e", "t", "i", "n", "g">>
s_Dash == <<" ", "-", " ">>
s_Secs == <<"s", ")">>
s_Note == <<"N", "o", "t", "e", ":", " ">>
s_Note_added == <<"N", "o", "t", "e", " ", "a", "d", "d", "e", "d">>
s_Task == <<"T", "a", "s", "k", ":", " ">>
s_Quote == <<"\"">>
s_moved_to == <<"\"", " ", "m", "o", "v", "e", "d", " ", "t", "o", ":", " ">>
s_via == <<" ", "(", "v", "i", "a", " ">>
s_amount_set ==
    <<"\"", " ", "a", "m", "o", "u", "n", "t", " ", "s", "e", "t", " ", "t", "o", " ", "$">>
s_created_Stage ==
    <<"\"", " ", "c", "r", "e", "a", "t", "e", "d", " ", "|", " ", "S", "t", "a", "g", "e",
      ":", " ">>
s_closed_Final ==
    <<"\"", " ", "c", "l", "o", "s", "e", "d", " ", "|", " ", "F", "i", "n", "a", "l", ":",
      " ">>
s_Dollar == <<" ", "|", " ", "$">>
ClosedWon == <<"C", "l", "o", "s", "e", "d", " ", "W", "o", "n">>
Churn == <<"C", "h", "u", "r", "n">>
ClosedLost == <<"C", "l", "o", "s", "e", "d", " ", "L", "o", "s", "t">>
DemoScheduled == <<"D", "e", "m", "o", " ", "S", "c", "h", "e", "d", "u", "l", "e", "d">>
DemoFollowUp == <<"D", "e", "m", "o", " ", "F", "o", "l", "l", "o", "w", "-", "U", "p">>
PaymentLinkSent ==
    <<"P", "a", "y", "m", "e", "n", "t", " ", "L", "i", "n", "k", " ", "S", "e", "n", "t">>
OnHold == <<"O", "n", " ", "H", "o", "l", "d">>
FreeTrial == <<"F", "r", "e", "e", " ", "T", "r", "i", "a", "l">>
Freemium == <<"F", "r", "e", "e", "m", "i", "u", "m">>
InterestedInAPilot ==
    <<"I", "n", "t", "e", "r", "e", "s", "t", "e", "d", " ", "i", "n", " ", "a", " ", "p", "i",
      "l", "o", "t">>
NoDeal == <<"N", "o", " ", "D", "e", "a", "l">>
Prospect == <<"P", "r", "o", "s", "p", "e", "c", "t">>
STAGE_MAP ==
    <<<<<<"a", "p", "p", "o", "i", "n", "t", "m", "e", "n", "t", "s", "c", "h", "e", "d", "u", "l", "e", "d">>,
        <<"P", "r", "o", "s", "p", "e", "c", "t">>>>,
      <<<<"1", "4", "9", "9", "8", "3", "8", "1", "7", "1">>,
        <<"A", "p", "p", "r", "o", "a", "c", "h", "e", "d">>>>,
      <<<<"q", "u", "a", "l", "i", "f", "i", "e", "d", "t", "o", "b", "u", "y">>,
        <<"L", "e", "a", "d">>>>,
      <<<<"p", "r", "e", "s", "e", "n", "t", "a", "t", "i", "o", "n", "s", "c", "h", "e", "d", "u", "l", "e", "d">>,
        <<"D", "e", "m", "o", " ", "S", "c", "h", "e", "d", "u", "l", "e", "d">>>>,
      <<<<"1", "9", "5", "5", "9", "5", "8", "5", "1", "0">>,
        <<"N", "o", "-", "S", "h", "o", "w", "/", "R", "e", "s", "c", "h", "e", "d", "u", "l", "e", " ", "D", "e", "m", "o">>>>,
      <<<<"d", "e", "c", "i", "s", "i", "o", "n", "m", "a", "k", "e", "r", "b", "o", "u", "g", "h", "t", "i", "n">>,
        <<"D", "e", "m", "o", " ", "F", "o", "l", "l", "o", "w", "-", "U", "p">>>>,
      <<<<"1", "9", "5", "5", "5", "8", "0", "6", "2", "2">>,
        <<"B", "u", "d", "g", "e", "t", "a", "r", "y", " ", "q", "u", "o", "t", "e", " ", "s", "e", "n", "t">>>>,
      <<<<"1", "5", "5", "9", "0", "9", "9", "0", "7", "7">>,
        <<"P", "a", "y", "m", "e", "n", "t", " ", "L", "i", "n", "k", " ", "S", "e", "n", "t">>>>,
      <<<<"1", "4", "9", "9", "8", "2", "7", "9", "4", "5">>,
        <<"F", "r", "e", "e", " ", "T", "r", "i", "a", "l">>>>,
      <<<<"1", "7", "3", "1", "1", "2", "2", "9", "0", "7">>,
        <<"F", "r", "e", "e", "m", "i", "u", "m">>>>,
      <<<<"c", "l", "o", "s", "e", "d", "w", "o", "n">>,
        <<"C", "l", "o", "s", "e", "d", " ", "W", "o", "n">>>>,
      <<<<"c", "o", "n", "t", "r", "a", "c", "t", "s", "e", "n", "t">>,
        <<"P", "i", "n", "g", " ", "L", "a", "t", "e", "r">>>>,
      <<<<"c", "l", "o", "s", "e", "d", "l", "o", "s", "t">>,
        <<"C", "l", "o", "s", "e", "d", " ", "L", "o", "s", "t">>>>,
      <<<<"1", "4", "9", "9", "7", "8", "4", "8", "9", "0">>,
        <<"C", "h", "u", "r", "n">>>>,
      <<<<"1", "4", "9", "9", "7", "8", "4", "8", "9", "1">>,
        <<"U", "n", "l", "i", "k", "e", "l", "y">>>>,
      <<<<"1", "4", "9", "9", "8", "2", "7", "9", "4", "4">>,
        <<"O", "n", " ", "H", "o", "l", "d">>>>,
      <<<<"1", "7", "1", "8", "6", "8", "6", "4", "4", "8">>,
        <<"I", "n", "t", "e", "r", "n", "a", "l", "+", "F", "r", "i", "e", "n", "d", "s", " ", "a", "n", "d", " ", "F", "a", "m", "i", "l", "y">>>>,
      <<<<"2", "0", "2", "5", "1", "3", "1", "7", "2", "3">>,
        <<"I", "n", "t", "e", "r", "e", "s", "t", "e", "d", " ", "i", "n", " ", "a", " ", "p", "i", "l", "o", "t">>>>>>

\* STAGE_MAP.get(value, value): unmapped keys pass through
RECURSIVE MapGet(_, _, _)
MapGet(map, key, default) ==
    IF map = <<>> THEN default
    ELSE IF Head(map)[1] = key THEN Head(map)[2]
    ELSE MapGet(Tail(map), key, default)

\* ENGAGEMENT_TYPES: association type -> touchpoint kind, in dict order
ENGAGEMENT_TYPES ==
    <<<<"emails", "Email">>, <<"calls", "Call">>, <<"meetings", "Meeting">>,
      <<"notes", "Note">>, <<"tasks", "Task">>, <<"communications", "Communication">>>>

\* dict.get(key, default) on a property bag (a record: its DOMAIN is the keys
\* present; a key present with JSON null holds None).
Get(bag, key, default) == IF key \in DOMAIN bag THEN bag[key] ELSE default

\* str(n) for an int
RECURSIVE NatStr(_)
NatStr(n) ==
    LET d == <<"0", "1", "2", "3", "4", "5", "6", "7", "8", "9">>[(n % 10) + 1]
    IN  IF n < 10 THEN <<d>> ELSE NatStr(n \div 10) \o <<d>>

IntStr(n) == IF n < 0 THEN <<"-">> \o NatStr(-n) ELSE NatStr(n)

\* f"{x}" of a str-or-None value
Fmt(x) == IF x = None THEN s_None ELSE x

\* int(s) accepts optional surrounding whitespace, an optional sign and digits
\* (digit separators are not modelled); anything else raises ValueError.
IntBody(s) == LET t == Strip(s) IN IF t # <<>> /\ Head(t) \in {"+", "-"} THEN Tail(t) ELSE t

IntOk(s) == IntBody(s) # <<>> /\ AllDigits(IntBody(s), 1, Len(IntBody(s)))

IntVal(s) ==
    LET t == Strip(s)
        v == Num(IntBody(s), 1, Len(IntBody(s)))
    IN  IF Head(t) = "-" THEN -v ELSE v

\* int(x / 1000): the quotient truncated toward zero
TruncDiv1000(x) == IF x < 0 THEN -((-x) \div 1000) ELSE x \div 1000

\* ------------------------------------------------------------------------
\* Touchpoint Normalizer (main, the per-customer loop)
\* ------------------------------------------------------------------------

\* The largest number of engagements of one contact that are fetched.
EngagementCap == 30

\* max_len of truncate: its default, and the note and communication bodies' caps.
TruncateDefault == 120

NoteCap == 150

CommunicationCap == 100

\* Slice lengths of the dedup key.
DateKeyLen == 16

DetailKeyLen == 50

\* One touchpoint dict; contact is None where the dict has no "contact" key.
\* type and source are only ever compared for equality and are kept as atoms.
Touchpoint(date, type, detail, source, contact) ==
    [date |-> date, type |-> type, detail |-> detail, source |-> source,
     contact |-> contact]

\* <<x>> if cond else nothing: one conditional company_touchpoints.append
When(cond, tp) == IF cond THEN <<tp>> ELSE <<>>

\* Fault variant of NotFoundTouchpoint: the contact's touchpoint is taken for one
\* of a contact HubSpot knows.
NotFoundTouchpoint_AsKnown(email, contact) ==
    Touchpoint(Get(contact, "created", <<>>), "Platform Signup",
               email \o s_created_Arda, "Cognito", email)

\* The touchpoint of a contact that HubSpot does not know.
NotFoundTouchpoint(email, contact) ==
    Touchpoint(Get(contact, "created", <<>>), "Platform Signup",
               email \o s_created_Cognito, "Cognito", None)

\* detail of the "First Touch" touchpoint
FirstTouchDetail(props) ==
    LET source    == Get(props, "hs_analytics_source", s_Unknown)
        sd1       == Get(props, "hs_analytics_source_data_1", <<>>)
        sd2       == Get(props, "hs_analytics_source_data_2", <<>>)
        first_url == Get(props, "hs_analytics_first_url", <<>>)
        first_ref == Get(props, "hs_analytics_first_referrer", <<>>)
    IN  s_Source \o Fmt(source)
          \o (IF Truthy(sd1) THEN s_Bar \o sd1 ELSE <<>>)
          \o (IF Truthy(sd2) THEN s_Open \o sd2 \o s_Close ELSE <<>>)
          \o (IF Truthy(first_url) THEN s_URL \o first_url ELSE <<>>)
          \o (IF Truthy(first_ref) THEN s_Referrer \o first_ref ELSE <<>>)

\* Fault variant of ConversionTouchpoints: the recent conversion is not compared
\* with the first one.
ConversionTouchpoints_Both(email, props) ==
    LET first_conv       == Get(props, "first_conversion_event_name", None)
        first_conv_date  == Get(props, "first_conversion_date", None)
        recent_conv      == Get(props, "recent_conversion_event_name", None)
        recent_conv_date == Get(props, "recent_conversion_date", None)
    IN  When(Truthy(first_conv) /\ Truthy(first_conv_date),
             Touchpoint(first_conv_date, "First Form Submission", s_Form \o first_conv,
                        "HubSpot Forms", email))
        \o When(Truthy(recent_conv) /\ Truthy(recent_conv_date),
             Touchpoint(recent_conv_date, "Form Submission", s_Form \o recent_conv,
                        "HubSpot Forms", email))

\* Conversion events: the first and the most recent form submission of a contact
ConversionTouchpoints(email, props) ==
    LET first_conv       == Get(props, "first_conversion_event_name", None)
        first_conv_date  == Get(props, "first_conversion_date", None)
        recent_conv      == Get(props, "recent_conversion_event_name", None)
        recent_conv_date == Get(props, "recent_conversion_date", None)
    IN  When(Truthy(first_conv) /\ Truthy(first_conv_date),
             Touchpoint(first_conv_date, "First Form Submission", s_Form \o first_conv,
                        "HubSpot Forms", email))
        \o When(Truthy(recent_conv) /\ Truthy(recent_conv_date)
                  /\ recent_conv_date # first_conv_date,
             Touchpoint(recent_conv_date, "Form Submission", s_Form \o recent_conv,
                        "HubSpot Forms", email))

\* The touchpoints appended for a contact found in HubSpot, before its engagements.
ContactTouchpoints(email, props, contact) ==
    LET first_touch      == Get(props, "hs_analytics_first_timestamp", None)
        lead_date        == Get(props, "hs_lifecyclestage_lead_date", None)
        opp_date         == Get(props, "hs_lifecyclestage_opportunity_date", None)
        cust_date        == Get(props, "hs_lifecyclestage_customer_date", None)
        first_eng        == Get(props, "hs_sa_first_engagement_date", None)
        last_sales       == Get(props, "hs_last_sales_activity_date", None)
        latest_meeting   == Get(props, "hs_latest_meeting_activity", None)
        hs_created       == Get(props, "createdate", None)
        cognito_date     == Get(contact, "created", <<>>)
    IN  When(Truthy(first_touch),
             Touchpoint(first_touch, "First Touch", FirstTouchDetail(props),
                        "HubSpot Analytics", email))
        \o When(Truthy(lead_date),
             Touchpoint(lead_date, "Lifecycle: Became Lead", email \o s_to_Lead,
                        "HubSpot Lifecycle", email))
        \o When(Truthy(opp_date),
             Touchpoint(opp_date, "Lifecycle: Became Opportunity",
                        email \o s_to_Opportunity, "HubSpot Lifecycle", email))
        \o When(Truthy(cust_date),
             Touchpoint(cust_date, "Lifecycle: Became Customer", email \o s_to_Customer,
                        "HubSpot Lifecycle", email))
        \o When(Truthy(first_eng),
             Touchpoint(first_eng, "First Sales Engagement", s_First_sales \o email,
                        "HubSpot Sales", email))
        \o When(Truthy(last_sales),
             Touchpoint(last_sales, "Last Sales Activity", s_Most_recent \o email,
                        "HubSpot Sales", email))
        \o When(Truthy(latest_meeting),
             Touchpoint(latest_meeting, "Meeting", s_Meeting_with \o email,
                        "HubSpot Meetings", email))
        \o ConversionTouchpoints(email, props)
        \o When(Truthy(hs_created),
             Touchpoint(hs_created, "HubSpot Contact Created", email \o s_added,
                        "HubSpot CRM", email))
        \o When(Truthy(cognito_date),
             Touchpoint(cognito_date, "Platform Signup", email \o s_created_Arda,
                        "Cognito", email))

\* Whether formatting the engagement raises: int(duration) of a call whose
\* duration is no integer literal (ValueError, caught nowhere).
EngagementRaises(eng_type, eng_props) ==
    LET duration == Get(eng_props, "hs_call_duration", <<>>)
    IN  eng_type = "calls" /\ Truthy(duration) /\ duration # s_Zero /\ ~IntOk(duration)

\* detail_text of an engagement, by kind
EngagementDetail(eng_type, eng_props) ==
    CASE eng_type = "emails" ->
           LET subj      == Get(eng_props, "hs_email_subject", <<>>)
               direction == Get(eng_props, "hs_email_direction", <<>>)
           IN  s_LBr \o Fmt(direction) \o s_RBr
                 \o (IF Truthy(subj) THEN subj ELSE s_Email)
      [] eng_type = "calls" ->
           LET title       == Get(eng_props, "hs_call_title", <<>>)
               duration    == Get(eng_props, "hs_call_duration", <<>>)
               disposition == Get(eng_props, "hs_call_disposition", <<>>)
               dur_str     == IF Truthy(duration) /\ duration # s_Zero
                              THEN s_Open \o IntStr(TruncDiv1000(IntVal(duration))) \o s_Secs
                              ELSE <<>>
           IN  OrElse(title, s_Call) \o dur_str
                 \o (IF Truthy(disposition) THEN s_Dash \o disposition ELSE <<>>)
      [] eng_type = "meetings" ->
           LET title   == Get(eng_props, "hs_meeting_title", <<>>)
               outcome == Get(eng_props, "hs_meeting_outcome", <<>>)
           IN  OrElse(title, s_Meeting)
                 \o (IF Truthy(outcome) THEN s_Dash \o outcome ELSE <<>>)
      [] eng_type = "notes" ->
           LET body == truncate(Get(eng_props, "hs_note_body", <<>>), NoteCap)
           IN  IF Truthy(body) THEN s_Note \o body ELSE s_Note_added
      [] eng_type = "tasks" ->
           LET subj   == Get(eng_props, "hs_task_subject", <<>>)
               status == Get(eng_props, "hs_task_status", <<>>)
           IN  s_Task \o Fmt(subj)
                 \o (IF Truthy(status) THEN s_Open \o status \o s_Close ELSE <<>>)
      [] eng_type = "communications" ->
           LET channel == Get(eng_props, "hs_communication_channel_type", <<>>)
               body    == truncate(Get(eng_props, "hs_communication_body", <<>>),
                                   CommunicationCap)
           IN  IF Truthy(channel) THEN s_LBr \o channel \o s_RBr \o body ELSE body
      [] OTHER -> <<>>

\* ts of an engagement: hs_timestamp, else createdAt; a meeting's start time wins
EngagementTs(eng_type, details) ==
    LET eng_props == Get(details, "properties", <<>>)
        ts0       == Get(eng_props, "hs_timestamp", None)
        ts        == IF Truthy(ts0) THEN ts0 ELSE Get(details, "createdAt", None)
        start     == Get(eng_props, "hs_meeting_start_time", <<>>)
    IN  IF eng_type = "meetings" /\ Truthy(start) THEN start ELSE ts

\* Fault variant of EngagementTouchpoints: the touchpoint is appended without
\* the test of ts.
EngagementTouchpoints_NoGuard(eng_type, details, email) ==
    LET eng_props == Get(details, "properties", <<>>)
        ts        == EngagementTs(eng_type, details)
    IN  <<Touchpoint(ts, MapGet(ENGAGEMENT_TYPES, eng_type, None),
                     EngagementDetail(eng_type, eng_props),
                     "HubSpot Engagement", email)>>

\* The touchpoints one fetched engagement appends (none when it has no ts).
EngagementTouchpoints(eng_type, details, email) ==
    LET eng_props == Get(details, "properties", <<>>)
        ts        == EngagementTs(eng_type, details)
    IN  When(Truthy(ts),
             Touchpoint(ts, MapGet(ENGAGEMENT_TYPES, eng_type, None),
                        EngagementDetail(eng_type, eng_props),
                        "HubSpot Engagement", email))

\* The detail of a "Deal Stage Change" touchpoint
StageDetail(deal_name, stage_name, source_type) ==
    s_Quote \o Fmt(deal_name) \o s_moved_to \o Fmt(stage_name)
      \o s_via \o Fmt(source_type) \o s_Close

\* One "Deal Stage Change" touchpoint per entry of the dealstage history.
RECURSIVE StageTouchpoints(_, _)
StageTouchpoints(deal_name, stage_history) ==
    IF stage_history = <<>> THEN <<>>
    ELSE LET entry       == Head(stage_history)
             ts          == Get(entry, "timestamp", None)
             value       == Get(entry, "value", <<>>)
             stage_name  == MapGet(STAGE_MAP, value, value)
             source_type == Get(entry, "sourceType", <<>>)
         IN  <<Touchpoint(ts, "Deal Stage Change",
                          StageDetail(deal_name, stage_name, source_type),
                          "HubSpot Deal", None)>>
             \o StageTouchpoints(deal_name, Tail(stage_history))

\* Fault variant of AmountTouchpoints: an entry without a value is not skipped.
RECURSIVE AmountTouchpoints_EveryEntry(_, _)
AmountTouchpoints_EveryEntry(deal_name, amount_history) ==
    IF amount_history = <<>> THEN <<>>
    ELSE <<Touchpoint(Get(Head(amount_history), "timestamp", None), "Deal Amount Changed",
                      s_Quote \o Fmt(deal_name) \o s_amount_set
                        \o Get(Head(amount_history), "value", <<>>),
                      "HubSpot Deal", None)>>
           \o AmountTouchpoints_EveryEntry(deal_name, Tail(amount_history))

\* One "Deal Amount Changed" touchpoint per entry of the amount history with a value.
RECURSIVE AmountTouchpoints(_, _)
AmountTouchpoints(deal_name, amount_history) ==
    IF amount_history = <<>> THEN <<>>
    ELSE LET entry == Head(amount_history)
             ts    == Get(entry, "timestamp", None)
             value == Get(entry, "value", <<>>)
         IN  When(Truthy(value),
                  Touchpoint(ts, "Deal Amount Changed",
                             s_Quote \o Fmt(deal_name) \o s_amount_set \o value,
                             "HubSpot Deal", None))
             \o AmountTouchpoints(deal_name, Tail(amount_history))

\* "Deal Created" and "Deal Closed" of every deal that has the date.
RECURSIVE DealTouchpoints(_)
DealTouchpoints(deals) ==
    IF deals = <<>> THEN <<>>
    ELSE LET d      == Head(deals)
             name   == Fmt(Get(d, "name", s_Unknown))
             stage  == Fmt(Get(d, "stage", s_NA))
             amount == Get(d, "amount", None)
             tail   == IF Truthy(amount) THEN s_Dollar \o amount ELSE <<>>
         IN  When(Truthy(Get(d, "created", None)),
                  Touchpoint(d.created, "Deal Created",
                             s_Quote \o name \o s_created_Stage \o stage \o tail,
                             "HubSpot Deal", None))
             \o When(Truthy(Get(d, "closed", None)),
                  Touchpoint(d.closed, "Deal Closed",
                             s_Quote \o name \o s_closed_Final \o stage \o tail,
                             "HubSpot Deal", None))
             \o DealTouchpoints(Tail(deals))

\* ------------------------------------------------------------------------
\* Deduplicator/Sorter
\* ------------------------------------------------------------------------

\* The sort key: t.get("date") or "9999"
SortKey(tp) == OrElse(tp.date, s_9999)

\* tp inserted after the last element whose key is not greater: a stable insertion
RECURSIVE InsertSorted(_, _)
InsertSorted(sorted, tp) ==
    IF sorted = <<>> THEN <<tp>>
    ELSE IF StrLess(SortKey(tp), SortKey(sorted[Len(sorted)]))
    THEN InsertSorted(SubSeq(sorted, 1, Len(sorted) - 1), tp) \o <<sorted[Len(sorted)]>>
    ELSE sorted \o <<tp>>

\* list.sort(key=...): the stable sort by the key's string order
RECURSIVE SortByDate(_)
SortByDate(tps) ==
    IF tps = <<>> THEN <<>>
    ELSE InsertSorted(SortByDate(SubSeq(tps, 1, Len(tps) - 1)), tps[Len(tps)])

\* The dedup key of a touchpoint.  date is None only for a deal-history entry
\* without timestamp, and None[:16] raises TypeError (see DedupRaises).
DedupKey(tp) ==
    <<Prefix(tp.date, DateKeyLen), tp.type, Prefix(tp.detail, DetailKeyLen)>>

DedupRaises(tps) == \E i \in 1..Len(tps) : tps[i].date = None

\* Fault variant of DedupFrom: the membership test is inverted, so a touchpoint
\* is kept iff its key was seen before.
RECURSIVE DedupFrom_Inverted(_, _)
DedupFrom_Inverted(tps, seen_keys) ==
    IF tps = <<>> THEN <<>>
    ELSE IF DedupKey(Head(tps)) \notin seen_keys
    THEN DedupFrom_Inverted(Tail(tps), seen_keys \cup {DedupKey(Head(tps))})
    ELSE <<Head(tps)>> \o DedupFrom_Inverted(Tail(tps), seen_keys)

\* The dedup loop: keep a touchpoint iff its key was not seen before.
RECURSIVE DedupFrom(_, _)
DedupFrom(tps, seen_keys) ==
    IF tps = <<>> THEN <<>>
    ELSE IF DedupKey(Head(tps)) \in seen_keys THEN DedupFrom(Tail(tps), seen_keys)
    ELSE <<Head(tps)>> \o DedupFrom(Tail(tps), seen_keys \cup {DedupKey(Head(tps))})

Dedup(tps) == DedupFrom(tps, {})

\* c.lower() for the letters the model's inputs hold in upper case
LowerChar(c) ==
    CASE c = "A" -> "a" [] c = "B" -> "b" [] c = "C" -> "c" [] c = "D" -> "d"
      [] c = "E" -> "e" [] OTHER -> c

\* s.lower()
Lower(s) == [i \in 1..Len(s) |-> LowerChar(s[i])]

\* ------------------------------------------------------------------------
\* Inputs: customer_journeys.json and what the CRM answers
\* ------------------------------------------------------------------------

\* Customers in customer_journeys.json.
MaxCustomers == 2

\* Answers of the CRM during the batch that carry a contact, an engagement, a
\* deal or a deal history, or stand for a failed engagement call; every other
\* lookup finds nothing.
MaxRecords == 2

\* A text longer than every cap.
LongLen == 160

D1 ==
    <<"2", "0", "2", "4", "-", "0", "3", "-", "0", "1", "T", "1", "0", ":", "0", "0", ":", "0",
      "0", "Z">>

D2 ==
    <<"2", "0", "2", "4", "-", "0", "3", "-", "0", "1", "T", "1", "0", ":", "0", "0", ":", "3",
      "0", "Z">>

D3 ==
    <<"2", "0", "2", "4", "-", "0", "3", "-", "0", "1", "T", "1", "2", ":", "0", "0", ":", "0",
      "0", "+", "0", "2", ":", "0", "0">>

D4 ==
    <<"2", "0", "2", "4", "-", "0", "3", "-", "0", "9", "T", "1", "0", ":", "0", "0", ":", "0",
      "0", "Z">>

D5 == <<"0", "3", "/", "0", "1", "/", "2", "0", "2", "4">>

DayA == <<"2", "0", "2", "4", "-", "0", "1", "-", "0", "1">>

DayB == <<"2", "0", "2", "4", "-", "0", "1", "-", "0", "8">>

EmailA == <<" ", "A", "@", "x", ".", "i", "o">>

EmailB == <<"b", "@", "x", ".", "i", "o">>

Acme == <<"A", "c", "m", "e">>

Bolt == <<"B", "o", "l", "t">>

\* A company name too short for the deal search.
Co == <<"C", "o">>

AcmeDeal == <<"A", "c", "m", "e", " ", "D", "e", "a", "l">>

BoltDeal == <<"B", "o", "l", "t", " ", "D", "e", "a", "l">>

s_Hi == <<"H", "i">>

s_INCOMING == <<"I", "N", "C", "O", "M", "I", "N", "G">>

s_65000 == <<"6", "5", "0", "0", "0">>

s_abc == <<"a", "b", "c">>

s_CRM_UI == <<"C", "R", "M", "_", "U", "I">>

s_presentationscheduled ==
    <<"p", "r", "e", "s", "e", "n", "t", "a", "t", "i", "o", "n", "s", "c", "h", "e", "d", "u",
      "l", "e", "d">>

s_closedwon == <<"c", "l", "o", "s", "e", "d", "w", "o", "n">>

s_500 == <<"5", "0", "0">>

s_Demo == <<"D", "e", "m", "o">>

s_OFFLINE == <<"O", "F", "F", "L", "I", "N", "E">>

s_PAID_SEARCH == <<"P", "A", "I", "D", "_", "S", "E", "A", "R", "C", "H">>

s_Id1 == <<"1", "0", "1">>

s_Id2 == <<"2", "0", "2">>

LongText == Rep("x", LongLen)

\* A note body one character over its cap, wrapped in white space.
LongNote == <<" ">> \o Rep("n", NoteCap + 1) \o <<"\n">>

ContactA == [email |-> EmailA, created |-> D4]

ContactB == [email |-> EmailB]

Deal1 == [name |-> BoltDeal, stage |-> ClosedWon, amount |-> s_500, created |-> D1,
          closed |-> D4]

\* deal_stage of the journeys without contacts: churned, no deal, unmapped, empty.
BareStages == {ClosedLost, NoDeal, Prospect, <<>>}

\* The customers customer_journeys.json may hold: one with a contact, one with
\* a contact and a known deal, one without deal_stage, and one per bare stage
\* (under a name no deal is searched for).
Journeys ==
    {[company |-> Acme, contacts |-> <<ContactA>>, all_deals |-> <<>>,
      deal_stage |-> ClosedWon, first_touch |-> DayA, cognito_signup |-> DayB,
      source |-> s_PAID_SEARCH],
     [company |-> Bolt, contacts |-> <<ContactB>>, all_deals |-> <<Deal1>>,
      deal_stage |-> DemoScheduled, first_touch |-> DayA, cognito_signup |-> DayB,
      source |-> s_OFFLINE],
     [company |-> Bolt, contacts |-> <<>>, first_touch |-> DayB]}
    \cup {[company |-> Co, contacts |-> <<>>, all_deals |-> <<>>, deal_stage |-> st,
           first_touch |-> DayB, cognito_signup |-> DayA, source |-> s_OFFLINE]
            : st \in BareStages}

\* What get_contact_by_email may return for a contact HubSpot knows: the
\* contact's id and properties.
Contacts ==
    {[id |-> "c1", properties |-> [createdate |-> D1]],
     [id |-> "c2", properties |->
        [hs_analytics_first_timestamp |-> D1, hs_analytics_source |-> s_OFFLINE,
         hs_analytics_source_data_1 |-> None, hs_analytics_first_url |-> LongText,
         hs_last_sales_activity_date |-> D2, hs_lifecyclestage_lead_date |-> D5,
         first_conversion_event_name |-> s_Demo, first_conversion_date |-> D2,
         recent_conversion_event_name |-> s_Demo, recent_conversion_date |-> D2]]}

\* The None a failed CRM call returns where its data is a dict.
NoData == [none |-> TRUE]

\* The engagements of the CRM: the association's type and id, and what
\* get_engagement_details returns for it (NoData when the call fails).
Engagements ==
    {[eng_type |-> "emails", eng_id |-> "e1", details |-> [properties |->
        [hs_timestamp |-> D1, hs_email_subject |-> s_Hi, hs_email_direction |-> s_INCOMING]]],
     [eng_type |-> "emails", eng_id |-> "e2", details |-> [properties |->
        [hs_timestamp |-> D2, hs_email_subject |-> s_Hi, hs_email_direction |-> s_INCOMING]]],
     [eng_type |-> "calls", eng_id |-> "e3", details |-> [properties |->
        [hs_timestamp |-> D1, hs_call_duration |-> s_abc]]],
     [eng_type |-> "calls", eng_id |-> "e4", details |-> [properties |->
        [hs_timestamp |-> D2, hs_call_title |-> s_Demo, hs_call_duration |-> s_65000]]],
     [eng_type |-> "meetings", eng_id |-> "e5", details |-> [createdAt |-> D4, properties |->
        [hs_timestamp |-> None, hs_meeting_start_time |-> D2]]],
     [eng_type |-> "notes", eng_id |-> "e6", details |-> [properties |->
        [hs_timestamp |-> None, hs_note_body |-> s_Hi]]],
     [eng_type |-> "notes", eng_id |-> "e7", details |-> [createdAt |-> D4, properties |->
        [hs_note_body |-> LongNote]]],
     [eng_type |-> "emails", eng_id |-> "e8", details |-> NoData]}

\* get_engagement_details(eng_type, eng_id)
get_engagement_details(eng_type, eng_id) ==
    (CHOOSE e \in Engagements : e.eng_type = eng_type /\ e.eng_id = eng_id).details

\* What the deal search for a company's name answers: the "results" of the CRM
\* (nothing when the call fails).
SearchedDeals ==
    {<<>>,
     <<[id |-> s_Id2, properties |-> [dealname |-> AcmeDeal, dealstage |-> s_closedwon,
                                      amount |-> None, createdate |-> D1,
                                      closedate |-> None]]>>}

\* What the deal search for a deal's name answers: the "results" of the CRM.
FoundDealIds == {<<>>, <<[id |-> s_Id1, properties |-> [dealname |-> BoltDeal]]>>}

\* The {} get_deal_property_history returns when the call failed.
Histories_Empty == [dealstage |-> <<>>, amount |-> <<>>]

\* propertiesWithHistory of a deal; the last one has a stage entry without
\* timestamp.
Histories ==
    {Histories_Empty,
     [dealstage |-> <<[timestamp |-> D2, value |-> s_presentationscheduled,
                       sourceType |-> s_CRM_UI],
                      [timestamp |-> D3, value |-> s_presentationscheduled,
                       sourceType |-> s_CRM_UI],
                      [timestamp |-> D1, value |-> s_presentationscheduled,
                       sourceType |-> s_CRM_UI]>>,
      amount |-> <<[timestamp |-> D2, value |-> s_500], [timestamp |-> D4]>>],
     [dealstage |-> <<[value |-> s_closedwon, sourceType |-> s_CRM_UI]>>,
      amount |-> <<>>]}

\* ------------------------------------------------------------------------
\* Cohort Aggregator and Falloff/Gap Analyzer
\* ------------------------------------------------------------------------

StalledStages ==
    {DemoScheduled, DemoFollowUp, PaymentLinkSent, OnHold, FreeTrial, Freemium,
     InterestedInAPilot}

InClosedWon(c) == c.deal_stage = ClosedWon

\* Fault variant of InChurned: every stage that names a closed deal counts as churn.
InChurned_AnyClosed(c) ==
    c.deal_stage = Churn \/ Contains(c.deal_stage, <<"C", "l", "o", "s", "e", "d">>)

InChurned(c) == c.deal_stage \in {Churn, ClosedLost}

InStalled(c) == c.deal_stage \in StalledStages

\* Fault variant of InNoDeal: the cohort takes every customer the other three leave.
InNoDeal_Rest(c) == ~InClosedWon(c) /\ ~InChurned(c) /\ ~InStalled(c)

InNoDeal(c) == ~Truthy(c.deal_stage) \/ c.deal_stage = NoDeal

\* The cohort lists hold references to the customers' records: the model holds
\* the customers' indices in all_touchpoint_data, in list order.
Indices(data) == [i \in 1..Len(data) |-> i]

\* Touchpoint kinds the gap walk skips.
GapExcluded == {"Last Sales Activity"}

\* Fault variant of GapLoop: a gap of zero days is recorded too.
RECURSIVE GapLoop_NonNegative(_, _, _, _, _)
GapLoop_NonNegative(c, i, prev_date, prev_type, gaps) ==
    IF i > Len(c.touchpoints)
    THEN [gaps |-> gaps, prev_date |-> prev_date, prev_type |-> prev_type]
    ELSE LET tp == c.touchpoints[i] IN
         IF Truthy(tp.date) /\ tp.type \notin GapExcluded
         THEN LET gap == IF Truthy(prev_date) THEN days_between(prev_date, tp.date)
                         ELSE <<>>
                  rec == [company |-> c.company, gap_days |-> gap[1],
                          from_type |-> prev_type, to_type |-> tp.type,
                          outcome |-> c.deal_stage]
              IN  GapLoop_NonNegative(c, i + 1, tp.date, tp.type,
                          IF gap # <<>> /\ gap[1] >= 0 THEN Append(gaps, rec) ELSE gaps)
         ELSE GapLoop_NonNegative(c, i + 1, prev_date, prev_type, gaps)

\* The gap walk over tps[i..]: the gaps appended and prev_date, prev_type after it.
RECURSIVE GapLoop(_, _, _, _, _)
GapLoop(c, i, prev_date, prev_type, gaps) ==
    IF i > Len(c.touchpoints)
    THEN [gaps |-> gaps, prev_date |-> prev_date, prev_type |-> prev_type]
    ELSE LET tp == c.touchpoints[i] IN
         IF Truthy(tp.date) /\ tp.type \notin GapExcluded
         THEN LET gap == IF Truthy(prev_date) THEN days_between(prev_date, tp.date)
                         ELSE <<>>
                  rec == [company |-> c.company, gap_days |-> gap[1],
                          from_type |-> prev_type, to_type |-> tp.type,
                          outcome |-> c.deal_stage]
              IN  GapLoop(c, i + 1, tp.date, tp.type,
                          IF gap # <<>> /\ gap[1] > 0 THEN Append(gaps, rec) ELSE gaps)
         ELSE GapLoop(c, i + 1, prev_date, prev_type, gaps)

\* Fault variant of FalloffLoop: prev_date is not reset between customers, so
\* the first touchpoint of a customer is paired with the last of the one before.
RECURSIVE FalloffLoop_CarryOver(_, _, _, _, _)
FalloffLoop_CarryOver(data, i, prev_date, prev_type, gaps) ==
    IF i > Len(data)
    THEN [gaps |-> gaps, prev_date |-> prev_date, prev_type |-> prev_type]
    ELSE LET r == GapLoop(data[i], 1, prev_date, prev_type, gaps)
         IN  FalloffLoop_CarryOver(data, i + 1, r.prev_date, r.prev_type, r.gaps)

\* The falloff loop over the customers data[i..]: prev_date starts as None for
\* each customer, prev_type is what the customer before left.
RECURSIVE FalloffLoop(_, _, _, _, _)
FalloffLoop(data, i, prev_date, prev_type, gaps) ==
    IF i > Len(data)
    THEN [gaps |-> gaps, prev_date |-> prev_date, prev_type |-> prev_type]
    ELSE LET r == GapLoop(data[i], 1, None, prev_type, gaps)
         IN  FalloffLoop(data, i + 1, r.prev_date, r.prev_type, r.gaps)

\* dict[key] += 1 on a defaultdict(int): a function from the keys seen to counts
Bump(counts, key) ==
    IF key \in DOMAIN counts THEN [counts EXCEPT ![key] = @ + 1] ELSE counts @@ (key :> 1)

\* An empty dict.
EmptyDict == [k \in {} |-> 0]

\* sum(xs)
RECURSIVE Sum(_)
Sum(xs) == IF xs = <<>> THEN 0 ELSE Head(xs) + Sum(Tail(xs))

\* sorted(xs) for ints: insertion from the left
RECURSIVE Sorted(_)
Sorted(xs) ==
    IF xs = <<>> THEN <<>>
    ELSE LET rest == Sorted(SubSeq(xs, 1, Len(xs) - 1))
             x    == xs[Len(xs)]
             le   == SelectSeq(rest, LAMBDA y : y <= x)
             gt   == SelectSeq(rest, LAMBDA y : y > x)
         IN  le \o <<x>> \o gt

RECURSIVE Gcd(_, _)
Gcd(a, b) == IF b = 0 THEN a ELSE Gcd(b, a % b)

\* a / b for ints a >= 0, b > 0: the quotient as a fraction in lowest terms
\* (the value the float stands for; the int 0 is the fraction 0/1).
Quotient(a, b) == [num |-> a \div Gcd(a, b), den |-> b \div Gcd(a, b)]

\* sum(xs) / n if xs else 0
Mean(xs, n) == IF xs = <<>> THEN Quotient(0, 1) ELSE Quotient(Sum(xs), n)

\* if d is not None and d >= 0: the day count that is appended
NotNegative(d) == IF d # <<>> /\ d[1] >= 0 THEN d ELSE <<>>

\* Fault variant of SignupDays: a negative gap is counted as 0 days.
SignupDays_NegativeAsZero(c) ==
    IF Truthy(c.first_touch) /\ Truthy(c.cognito_signup)
    THEN IF days_between(c.first_touch, c.cognito_signup) = <<>> THEN <<>>
         ELSE IF days_between(c.first_touch, c.cognito_signup)[1] >= 0
         THEN days_between(c.first_touch, c.cognito_signup)
         ELSE <<0>>
    ELSE <<>>

\* The days a customer adds to signup_days: first touch to signup, when both
\* dates are there and the gap is computed and not negative.
SignupDays(c) ==
    IF Truthy(c.first_touch) /\ Truthy(c.cognito_signup)
    THEN NotNegative(days_between(c.first_touch, c.cognito_signup))
    ELSE <<>>

\* The date of the first of the touchpoints tps[k], k in hits, or None (the
\* loop's break at the first hit)
FirstDate(tps, hits) ==
    IF hits = {} THEN None ELSE tps[CHOOSE k \in hits : \A m \in hits : k <= m].date

\* close_date of a customer: the first "Deal Closed" touchpoint whose detail
\* holds "Closed Won", else the first "Deal Closed" touchpoint
CloseDate(tps) ==
    LET won == FirstDate(tps, {k \in 1..Len(tps) : /\ tps[k].type = "Deal Closed"
                                                    /\ Contains(tps[k].detail, ClosedWon)})
    IN  IF Truthy(won) THEN won
        ELSE FirstDate(tps, {k \in 1..Len(tps) : tps[k].type = "Deal Closed"})

\* The days a customer adds to close_days
CloseDays(c) ==
    IF Truthy(c.first_touch) /\ Truthy(CloseDate(c.touchpoints))
    THEN NotNegative(days_between(c.first_touch, CloseDate(c.touchpoints)))
    ELSE <<>>

\* The median the code takes: sorted(counts)[len(counts) // 2], 0 for no counts
MedianOf(counts) ==
    IF counts = <<>> THEN 0 ELSE Sorted(counts)[(Len(counts) \div 2) + 1]

\* Customers of the group that have a touchpoint of one of the kinds
HasKind(group, kinds) ==
    Len(SelectSeq(group, LAMBDA c : \E tp \in Range(c.touchpoints) : tp.type \in kinds))

\* touchpoint_type_counts over the touchpoints tps[i..]
RECURSIVE TypeCounts(_, _)
TypeCounts(counts, tps) ==
    IF tps = <<>> THEN counts ELSE TypeCounts(Bump(counts, Head(tps).type), Tail(tps))

RECURSIVE GroupTypeCounts(_, _)
GroupTypeCounts(counts, group) ==
    IF group = <<>> THEN counts
    ELSE GroupTypeCounts(TypeCounts(counts, Head(group).touchpoints), Tail(group))

RECURSIVE SourceCounts(_, _)
SourceCounts(counts, group) ==
    IF group = <<>> THEN counts
    ELSE SourceCounts(Bump(counts, Head(group).source), Tail(group))

\* xs[1] \o xs[2] \o ...
RECURSIVE Flatten(_)
Flatten(xs) == IF xs = <<>> THEN <<>> ELSE Head(xs) \o Flatten(Tail(xs))

\* compute_group_metrics(group, label); an empty group returns before the
\* averages and the median are set, so its dict has no "median_touchpoints".
compute_group_metrics(group, label) ==
    IF group = <<>>
    THEN [label |-> label, count |-> 0, avg_touchpoints |-> Quotient(0, 1),
          avg_days_to_signup |-> Quotient(0, 1), avg_days_to_close |-> Quotient(0, 1),
          touchpoint_type_counts |-> EmptyDict, source_counts |-> EmptyDict,
          has_email |-> 0, has_call |-> 0, has_meeting |-> 0, has_note |-> 0,
          has_form |-> 0, signup_days |-> <<>>, close_days |-> <<>>,
          touchpoint_counts |-> <<>>]
    ELSE LET touchpoint_counts == [k \in 1..Len(group) |-> Len(group[k].touchpoints)]
             signup_days       == Flatten([k \in 1..Len(group) |-> SignupDays(group[k])])
             close_days        == Flatten([k \in 1..Len(group) |-> CloseDays(group[k])])
         IN  [label |-> label, count |-> Len(group),
              avg_touchpoints |-> Mean(touchpoint_counts, Len(group)),
              avg_days_to_signup |-> Mean(signup_days, Len(signup_days)),
              avg_days_to_close |-> Mean(close_days, Len(close_days)),
              median_touchpoints |-> MedianOf(touchpoint_counts),
              touchpoint_type_counts |-> GroupTypeCounts(EmptyDict, group),
              source_counts |-> SourceCounts(EmptyDict, group),
              has_email |-> HasKind(group, {"Email"}),
              has_call |-> HasKind(group, {"Call"}),
              has_meeting |-> HasKind(group, {"Meeting"}),
              has_note |-> HasKind(group, {"Note"}),
              has_form |-> HasKind(group, {"First Form Submission", "Form Submission"}),
              signup_days |-> signup_days, close_days |-> close_days,
              touchpoint_counts |-> touchpoint_counts]

\* The customers a cohort list refers to.
Group(data, cohort) == [k \in 1..Len(cohort) |-> data[cohort[k]]]

\* The phrase the stage extraction looks for.
s_moved_to_phrase == <<"m", "o", "v", "e", "d", " ", "t", "o", ":">>

\* The arrow of a transition key: blank, the character U+2192 (written "->"
\* here, one element as every character), blank.
s_Arrow == <<" ", "->", " ">>

\* detail.split("moved to:")[1].split("(")[0].strip()
ExtractStage(detail) == Strip(SplitOn(SplitOn(detail, s_moved_to_phrase)[2], <<"(">>)[1])

\* stages_seen of a customer: (date, stage) of the "Deal Stage Change"
\* touchpoints whose detail holds the phrase
RECURSIVE StagesSeen(_)
StagesSeen(tps) ==
    IF tps = <<>> THEN <<>>
    ELSE (IF Head(tps).type = "Deal Stage Change"
             /\ Contains(Head(tps).detail, s_moved_to_phrase)
          THEN <<<<Head(tps).date, ExtractStage(Head(tps).detail)>>>> ELSE <<>>)
           \o StagesSeen(Tail(tps))

\* The key of a transition: from_stage, the arrow, to_stage in one string
TransitionKey(from_stage, to_stage) == from_stage \o s_Arrow \o to_stage

\* stage_sequence_counts after the pairs i, i+1, ... of stages_seen
RECURSIVE SequenceCounts(_, _, _)
SequenceCounts(counts, stages_seen, i) ==
    IF i > Len(stages_seen) - 1 THEN counts
    ELSE SequenceCounts(Bump(counts, TransitionKey(stages_seen[i][2], stages_seen[i + 1][2])),
                        stages_seen, i + 1)

\* Stages counted in last_stage_before_stall.
StallStages == {DemoScheduled, DemoFollowUp, PaymentLinkSent, OnHold, FreeTrial}

\* The stage half of the falloff loop over the customers data[i..]:
\* stage_sequence_counts, last_stage_before_stall and the stages_seen of the
\* customer walked last.
RECURSIVE FalloffStages(_, _, _, _, _)
FalloffStages(data, i, counts, stalls, seen) ==
    IF i > Len(data)
    THEN [stage_sequence_counts |-> counts, last_stage_before_stall |-> stalls,
          stages_seen |-> seen]
    ELSE LET c           == data[i]
             stages_seen == StagesSeen(c.touchpoints)
         IN  FalloffStages(data, i + 1, SequenceCounts(counts, stages_seen, 1),
                           IF c.deal_stage \in StallStages THEN Bump(stalls, c.deal_stage)
                           ELSE stalls,
                           stages_seen)

\* Outcomes of the four gap lists of the report.
WonOutcomes == {ClosedWon}

StallOutcomes == {DemoScheduled, DemoFollowUp, OnHold, FreeTrial, PaymentLinkSent}

ChurnOutcomes == {Churn, ClosedLost}

NoDealOutcomes == {None, NoDeal, <<>>}

\* [g["gap_days"] for g in touchpoint_gaps if g["outcome"] in outcomes]
GapsOf(gaps, outcomes) ==
    LET picked == SelectSeq(gaps, LAMBDA g : g.outcome \in outcomes)
    IN  [k \in 1..Len(picked) |-> picked[k].gap_days]

\* The labels of speed_buckets, in dict order.
SpeedLabels == <<"Same day (0)", "1-7 days", "8-30 days", "31-90 days", "90+ days">>

\* Fault variant of SpeedBucket: the week's upper bound is left out of it.
SpeedBucket_OpenWeek(days) ==
    IF days = 0 THEN "Same day (0)"
    ELSE IF days < 7 THEN "1-7 days"
    ELSE IF days <= 30 THEN "8-30 days"
    ELSE IF days <= 90 THEN "31-90 days"
    ELSE "90+ days"

\* The bucket of a gap of days >= 0
SpeedBucket(days) ==
    IF days = 0 THEN "Same day (0)"
    ELSE IF days <= 7 THEN "1-7 days"
    ELSE IF days <= 30 THEN "8-30 days"
    ELSE IF days <= 90 THEN "31-90 days"
    ELSE "90+ days"

\* speed_buckets after the customers data[i..]: the customers' indices by label
RECURSIVE SpeedBuckets(_, _, _)
SpeedBuckets(buckets, data, i) ==
    IF i > Len(data) THEN buckets
    ELSE LET c    == data[i]
             days == IF Truthy(c.first_touch) /\ Truthy(c.cognito_signup)
                     THEN days_between(c.first_touch, c.cognito_signup) ELSE <<>>
         IN  SpeedBuckets(IF days # <<>> /\ days[1] >= 0
                          THEN [buckets EXCEPT ![SpeedBucket(days[1])] = Append(@, i)]
                          ELSE buckets,
                          data, i + 1)

\* ------------------------------------------------------------------------
\* The run of main()
\* ------------------------------------------------------------------------

VARIABLES
    pc,                       \* where main() is
    idx,                      \* customers taken from journeys so far
    journey,                  \* the journey of the current customer
    ci,                       \* index of the current contact in journey.contacts
    company_touchpoints,      \* the current customer's touchpoints, as collected
    company_contact_details,  \* the contacts of the customer found in HubSpot
    engagements,              \* the current contact's (type, id, label) iterated so far
    deals,                    \* the customer's deals
    unique_deals,             \* (name, id) of the deals whose history is fetched
    hs_contact,               \* what get_contact_by_email returned for the current contact
    history,                  \* what get_deal_property_history returned last
    di,                       \* index of the current deal in unique_deals
    all_touchpoint_data,      \* the customer records produced so far
    closed_won, churned, stalled, no_deal,   \* cohorts: indices of customers
    won_metrics, churn_metrics, stall_metrics, nodeal_metrics,   \* the cohorts' metrics
    stage_sequence_counts,    \* transition key -> count
    last_stage_before_stall,  \* stage -> stalled customers in it
    stages_seen,              \* (date, stage) of the customer the falloff loop walked last
    touchpoint_gaps,          \* the gap records
    prev_date, prev_type,     \* the gap walk's previous touchpoint
    won_gaps, stall_gaps, churn_gaps, nodeal_gaps,   \* gap_days by outcome (report)
    speed_buckets,            \* label -> indices of customers (report)
    n_records,                \* answers of the CRM counted against MaxRecords
    h_pc,                     \* where the lookup of one contact is (HTTP helpers)
    h_attempts,               \* requests the current (or last) hubspot_* call has sent
    h_returned,               \* whether that call has returned to its caller
    h_contact,                \* what get_contact_by_email returned
    h_ti,                     \* index of the association type get_contact_engagements is at
    all_engagements           \* the (type, id, label) get_contact_engagements collects

vars ==
    <<pc, idx, journey, ci, company_touchpoints, company_contact_details, engagements,
      deals, unique_deals, di, hs_contact, history, all_touchpoint_data, closed_won, churned,
      stalled, no_deal, won_metrics, churn_metrics, stall_metrics, nodeal_metrics,
      stage_sequence_counts, last_stage_before_stall, stages_seen, touchpoint_gaps,
      prev_date, prev_type, won_gaps, stall_gaps, churn_gaps, nodeal_gaps, speed_buckets,
      n_records, h_pc, h_attempts, h_returned, h_contact, h_ti, all_engagements>>

http_vars == <<h_pc, h_attempts, h_returned, h_contact, h_ti, all_engagements>>

main_vars ==
    <<pc, idx, journey, ci, company_touchpoints, company_contact_details, engagements,
      deals, unique_deals, di, hs_contact, history, all_touchpoint_data, closed_won, churned,
      stalled, no_deal, won_metrics, churn_metrics, stall_metrics, nodeal_metrics,
      stage_sequence_counts, last_stage_before_stall, stages_seen, touchpoint_gaps,
      prev_date, prev_type, won_gaps, stall_gaps, churn_gaps, nodeal_gaps, speed_buckets,
      n_records>>

customer_vars == <<journey, ci, company_touchpoints, company_contact_details, engagements,
                   deals, unique_deals, di, hs_contact, history>>

metrics_vars == <<won_metrics, churn_metrics, stall_metrics, nodeal_metrics>>

stage_vars == <<stage_sequence_counts, last_stage_before_stall, stages_seen>>

report_vars == <<won_gaps, stall_gaps, churn_gaps, nodeal_gaps, speed_buckets>>

analysis_vars == <<closed_won, churned, stalled, no_deal, metrics_vars, stage_vars,
                   touchpoint_gaps, prev_date, prev_type, report_vars>>

\* A journey before the first customer is taken.
NoJourney == [company |-> <<>>, contacts |-> <<>>]

Init ==
    /\ pc = "next_customer"
    /\ idx = 0
    /\ journey = NoJourney
    /\ ci = 1
    /\ company_touchpoints = <<>>
    /\ company_contact_details = <<>>
    /\ engagements = <<>>
    /\ deals = <<>>
    /\ unique_deals = <<>>
    /\ di = 1
    /\ hs_contact = NoData
    /\ history = NoData
    /\ all_touchpoint_data = <<>>
    /\ closed_won = <<>> /\ churned = <<>> /\ stalled = <<>> /\ no_deal = <<>>
    /\ won_metrics = NoData /\ churn_metrics = NoData
    /\ stall_metrics = NoData /\ nodeal_metrics = NoData
    /\ stage_sequence_counts = EmptyDict
    /\ last_stage_before_stall = EmptyDict
    /\ stages_seen = <<>>
    /\ touchpoint_gaps = <<>>
    /\ prev_date = None /\ prev_type = None
    /\ won_gaps = <<>> /\ stall_gaps = <<>> /\ churn_gaps = <<>> /\ nodeal_gaps = <<>>
    /\ speed_buckets = NoData
    /\ n_records = 0
    /\ h_pc = "idle"
    /\ h_attempts = 0
    /\ h_returned = TRUE
    /\ h_contact = NoData
    /\ h_ti = 1
    /\ all_engagements = <<>>

\* The email of the current contact: contact["email"].strip().lower()
CurrentEmail == Lower(Strip(journey.contacts[ci].email))

\* for idx, journey in enumerate(journeys): the next customer
StartCustomer(j) ==
    /\ pc = "next_customer"
    /\ idx < MaxCustomers
    /\ idx' = idx + 1
    /\ journey' = j
    /\ ci' = 1
    /\ company_touchpoints' = <<>>
    /\ company_contact_details' = <<>>
    /\ pc' = "contact"
    /\ UNCHANGED <<engagements, deals, unique_deals, di, all_touchpoint_data, n_records>>
    /\ UNCHANGED analysis_vars
    /\ UNCHANGED <<hs_contact, history>>
    /\ UNCHANGED http_vars

\* get_contact_by_email finds nothing (no such contact, or the call failed)
ContactNotFound ==
    /\ pc = "contact"
    /\ ci <= Len(journey.contacts)
    /\ company_touchpoints' =
         Append(company_touchpoints, NotFoundTouchpoint(CurrentEmail, journey.contacts[ci]))
    /\ ci' = ci + 1
    /\ UNCHANGED <<pc, idx, journey, company_contact_details, engagements, deals,
                   unique_deals, di, all_touchpoint_data, n_records>>
    /\ UNCHANGED analysis_vars
    /\ hs_contact' = NoData
    /\ UNCHANGED history
    /\ UNCHANGED http_vars

\* get_contact_by_email finds the contact: its analytics, lifecycle, sales, form,
\* creation and signup touchpoints
ContactFound(found) ==
    /\ pc = "contact"
    /\ ci <= Len(journey.contacts)
    /\ n_records < MaxRecords
    /\ n_records' = n_records + 1
    /\ company_contact_details' =
         Append(company_contact_details, [email |-> CurrentEmail, hs_id |-> found.id])
    /\ company_touchpoints' =
         company_touchpoints
           \o ContactTouchpoints(CurrentEmail, Get(found, "properties", <<>>),
                                 journey.contacts[ci])
    /\ engagements' = <<>>
    /\ pc' = "engagements"
    /\ UNCHANGED <<idx, journey, ci, deals, unique_deals, di, all_touchpoint_data>>
    /\ UNCHANGED analysis_vars
    /\ hs_contact' = found
    /\ UNCHANGED history
    /\ UNCHANGED http_vars

\* One pass of the loop over engagements[:30]: the next association of the
\* contact is e; its details are fetched and formatted.  A call whose duration is
\* no integer raises out of main().
FetchEngagement(e) ==
    /\ pc = "engagements"
    /\ Len(engagements) < EngagementCap
    /\ n_records < MaxRecords
    /\ n_records' = n_records + 1
    /\ engagements' =
         Append(engagements,
                <<e.eng_type, e.eng_id, MapGet(ENGAGEMENT_TYPES, e.eng_type, None)>>)
    /\ LET details == get_engagement_details(e.eng_type, e.eng_id) IN
       IF details = NoData
       THEN UNCHANGED <<pc, company_touchpoints>>
       ELSE IF EngagementRaises(e.eng_type, Get(details, "properties", <<>>))
       THEN pc' = "aborted" /\ UNCHANGED company_touchpoints
       ELSE /\ company_touchpoints' =
                 company_touchpoints
                   \o EngagementTouchpoints(e.eng_type, details, CurrentEmail)
            /\ UNCHANGED pc
    /\ UNCHANGED <<idx, journey, ci, company_contact_details, deals, unique_deals, di,
                   all_touchpoint_data>>
    /\ UNCHANGED analysis_vars
    /\ UNCHANGED <<hs_contact, history>>
    /\ UNCHANGED http_vars

\* The contact has no more engagements: on to the next contact
EngagementsDone ==
    /\ pc = "engagements"
    /\ ci' = ci + 1
    /\ pc' = "contact"
    /\ UNCHANGED <<idx, journey, company_touchpoints, company_contact_details, engagements,
                   deals, unique_deals, di, all_touchpoint_data, n_records>>
    /\ UNCHANGED analysis_vars
    /\ UNCHANGED <<hs_contact, history>>
    /\ UNCHANGED http_vars

\* The deals search_deals_for_company adds to the known ones
RECURSIVE AddSearched(_, _)
AddSearched(known, searched) ==
    IF searched = <<>> THEN known
    ELSE LET sd    == Head(searched)
             dn    == Get(sd.properties, "dealname", None)
             value == Get(sd.properties, "dealstage", <<>>)
             new   == [name |-> dn, stage |-> MapGet(STAGE_MAP, value, value),
                       amount |-> Get(sd.properties, "amount", None),
                       created |-> Get(sd.properties, "createdate", None),
                       closed |-> Get(sd.properties, "closedate", None),
                       _id |-> sd.id]
         IN  AddSearched(IF Truthy(dn) /\ ~\E k \in 1..Len(known) : known[k].name = dn
                         THEN Append(known, new) ELSE known,
                         Tail(searched))

\* (name, _id) of the deals that carry an id
RECURSIVE DealIds(_)
DealIds(ds) ==
    IF ds = <<>> THEN <<>>
    ELSE (IF "_id" \in DOMAIN Head(ds) THEN <<<<Head(ds).name, Head(ds)._id>>>> ELSE <<>>)
           \o DealIds(Tail(ds))

\* The pairs with the ids not seen before
RECURSIVE UniqueIds(_, _)
UniqueIds(pairs, seen_ids) ==
    IF pairs = <<>> THEN <<>>
    ELSE IF Head(pairs)[2] \in seen_ids THEN UniqueIds(Tail(pairs), seen_ids)
    ELSE <<Head(pairs)>> \o UniqueIds(Tail(pairs), seen_ids \cup {Head(pairs)[2]})

\* Deals with fewer than this many known deals are searched by company name.
FewDeals == 2

\* Deals whose history is fetched.
HistoryCap == 10

\* Known deals whose names are searched when no deal carries an id.
NameSearchCap == 5

\* search_deals_for_company posts a request: the name has three characters or more
SearchesCompany(company_name) == Truthy(company_name) /\ Len(company_name) >= 3

\* search_deals_for_company(company_name), the CRM answering results: the deals
\* whose name holds the company's name or one of its significant words
search_deals_for_company(company_name, results) ==
    LET long  == SelectSeq(Split(company_name), LAMBDA w : Len(w) > 3)
        words == IF long # <<>> THEN long ELSE Prefix(Split(company_name), 1)
        matches(d) ==
          LET dname == Lower(OrElse(Get(Get(d, "properties", <<>>), "dealname", None), <<>>))
          IN  \/ Contains(dname, Lower(company_name))
              \/ \E k \in 1..Len(words) : Contains(dname, Lower(words[k]))
    IN  IF SearchesCompany(company_name) THEN SelectSeq(results, matches) ELSE <<>>

\* The word of a deal's name that is searched: the first word of the part before
\* " - ", or the whole name when it has no blank.  (A name whose part before
\* " - " is blank raises IndexError; the deal names of the model have none.)
SearchWord(dname) ==
    IF ~Contains(dname, <<" ">>) THEN dname
    ELSE LET cut  == {k \in 1..(Len(dname) - 2) : SubSeq(dname, k, k + 2) = <<" ", "-", " ">>}
             part == IF cut = {} THEN dname
                     ELSE SubSeq(dname, 1, (CHOOSE k \in cut : \A m \in cut : k <= m) - 1)
         IN  Split(part)[1]

\* The known deals whose name is searched
NameSearched(ds) ==
    SelectSeq(Prefix(ds, NameSearchCap),
              LAMBDA d : Truthy(Get(d, "name", <<>>)) /\ Len(SearchWord(d.name)) > 3)

\* (dealname, id) of the results that match the company, once per searched name
RECURSIVE NameSearchIds(_, _, _)
NameSearchIds(company, searched_deals, results) ==
    IF searched_deals = <<>> THEN <<>>
    ELSE LET cn      == Lower(company)
             matches(rd) ==
               LET rn == Lower(Get(Get(rd, "properties", <<>>), "dealname", <<>>))
               IN  \/ Contains(rn, cn)
                   \/ \E w \in Range(Split(cn)) : Len(w) > 3 /\ Contains(rn, w)
             hits    == SelectSeq(results, matches)
         IN  [k \in 1..Len(hits) |-> <<hits[k].properties.dealname, hits[k].id>>]
               \o NameSearchIds(company, Tail(searched_deals), results)

\* After the contacts: the customer's deals and the deal ids to check.  result
\* is what the CRM answers to the search by company name, res what it answers to
\* every search by deal name; a search that is not made has no answer.
SearchDeals(result, res) ==
    /\ pc = "contact"
    /\ ci > Len(journey.contacts)
    /\ LET known    == Get(journey, "all_deals", <<>>)
           by_name  == Len(known) < FewDeals /\ SearchesCompany(journey.company)
           searched == IF Len(known) < FewDeals
                       THEN search_deals_for_company(journey.company, result) ELSE <<>>
           ds       == AddSearched(known, searched)
           ids      == DealIds(ds)
           by_deal  == ids = <<>> /\ NameSearched(ds) # <<>>
           fnd      == IF by_deal THEN NameSearchIds(journey.company, NameSearched(ds), res)
                       ELSE <<>>
       IN  /\ by_name \/ result = <<>>
           /\ by_deal \/ res = <<>>
           /\ n_records + Len(result) + Len(res) <= MaxRecords
           /\ n_records' = n_records + Len(result) + Len(res)
           /\ deals' = ds
           /\ unique_deals' = Prefix(UniqueIds(ids \o fnd, {}), HistoryCap)
    /\ di' = 1
    /\ pc' = "history"
    /\ UNCHANGED <<idx, journey, ci, company_touchpoints, company_contact_details,
                   engagements, all_touchpoint_data>>
    /\ UNCHANGED analysis_vars
    /\ UNCHANGED <<hs_contact, history>>
    /\ UNCHANGED http_vars

\* get_deal_property_history of the current deal: its stage and amount changes
FetchHistory(fetched) ==
    /\ pc = "history"
    /\ di <= Len(unique_deals)
    /\ fetched = Histories_Empty \/ n_records < MaxRecords
    /\ n_records' = IF fetched = Histories_Empty THEN n_records ELSE n_records + 1
    /\ company_touchpoints' =
         company_touchpoints
           \o StageTouchpoints(unique_deals[di][1], fetched.dealstage)
           \o AmountTouchpoints(unique_deals[di][1], fetched.amount)
    /\ di' = di + 1
    /\ UNCHANGED <<pc, idx, journey, ci, company_contact_details, engagements, deals,
                   unique_deals, all_touchpoint_data>>
    /\ UNCHANGED analysis_vars
    /\ history' = fetched
    /\ UNCHANGED hs_contact
    /\ UNCHANGED http_vars

\* The customer record appended to all_touchpoint_data
CustomerRecord(j, deduped, contact_details) ==
    [company |-> j.company, deal_stage |-> Get(j, "deal_stage", None),
     first_touch |-> Get(j, "first_touch", None),
     cognito_signup |-> Get(j, "cognito_signup", None),
     source |-> Get(j, "source", s_Unknown),
     touchpoints |-> deduped, contact_details |-> contact_details,
     total_touchpoints |-> Len(deduped)]

\* After the histories: the deal created/closed touchpoints, the sort, the dedup
\* and the customer's record.  The dedup raises on a touchpoint whose date is None.
FinishCustomer ==
    /\ pc = "history"
    /\ di > Len(unique_deals)
    /\ \E sorted \in {SortByDate(company_touchpoints \o DealTouchpoints(deals))} :
       /\ company_touchpoints' = sorted
       /\ IF DedupRaises(sorted)
          THEN pc' = "aborted" /\ UNCHANGED all_touchpoint_data
          ELSE /\ all_touchpoint_data' =
                    Append(all_touchpoint_data,
                           CustomerRecord(journey, Dedup(sorted), company_contact_details))
               /\ pc' = "next_customer"
    /\ UNCHANGED <<idx, journey, ci, company_contact_details, engagements, deals,
                   unique_deals, di, n_records>>
    /\ UNCHANGED analysis_vars
    /\ UNCHANGED <<hs_contact, history>>
    /\ UNCHANGED http_vars

\* Fault variant of LoopExhausted: the analysis may start while the deal
\* histories of a customer are still being fetched.
LoopExhausted_Early == pc \in {"next_customer", "history"}

\* The for loop over the journeys has ended: no customer is in progress
LoopExhausted == pc = "next_customer"

\* The customer list is exhausted: the four cohorts and their metrics
Categorize ==
    /\ LoopExhausted
    /\ closed_won' = SelectSeq(Indices(all_touchpoint_data),
                            LAMBDA i : InClosedWon(all_touchpoint_data[i]))
    /\ churned' = SelectSeq(Indices(all_touchpoint_data),
                            LAMBDA i : InChurned(all_touchpoint_data[i]))
    /\ stalled' = SelectSeq(Indices(all_touchpoint_data),
                            LAMBDA i : InStalled(all_touchpoint_data[i]))
    /\ no_deal' = SelectSeq(Indices(all_touchpoint_data),
                            LAMBDA i : InNoDeal(all_touchpoint_data[i]))
    /\ won_metrics' =
         compute_group_metrics(Group(all_touchpoint_data, closed_won'), "Closed Won")
    /\ churn_metrics' =
         compute_group_metrics(Group(all_touchpoint_data, churned'), "Churned")
    /\ stall_metrics' =
         compute_group_metrics(Group(all_touchpoint_data, stalled'), "Stalled (Active)")
    /\ nodeal_metrics' =
         compute_group_metrics(Group(all_touchpoint_data, no_deal'), "No Deal")
    /\ pc' = "gaps"
    /\ UNCHANGED <<idx, all_touchpoint_data, touchpoint_gaps, prev_date, prev_type,
                   n_records>>
    /\ UNCHANGED <<stage_vars, report_vars>>
    /\ UNCHANGED customer_vars
    /\ UNCHANGED http_vars

\* The falloff loop (for c in all_touchpoint_data): the stage transitions and
\* the gap records of every customer
AnalyzeGaps ==
    /\ pc = "gaps"
    /\ \E r \in {FalloffLoop(all_touchpoint_data, 1, prev_date, prev_type,
                            touchpoint_gaps)} :
       /\ touchpoint_gaps' = r.gaps
       /\ prev_date' = r.prev_date
       /\ prev_type' = r.prev_type
    /\ \E r \in {FalloffStages(all_touchpoint_data, 1, stage_sequence_counts,
                              last_stage_before_stall, stages_seen)} :
       /\ stage_sequence_counts' = r.stage_sequence_counts
       /\ last_stage_before_stall' = r.last_stage_before_stall
       /\ stages_seen' = r.stages_seen
    /\ pc' = "report"
    /\ UNCHANGED <<idx, all_touchpoint_data, closed_won, churned, stalled, no_deal,
                   n_records>>
    /\ UNCHANGED <<metrics_vars, report_vars>>
    /\ UNCHANGED customer_vars
    /\ UNCHANGED http_vars

\* The report: the gap lists by outcome and the speed buckets; main() returns
Report ==
    /\ pc = "report"
    /\ won_gaps' = GapsOf(touchpoint_gaps, WonOutcomes)
    /\ stall_gaps' = GapsOf(touchpoint_gaps, StallOutcomes)
    /\ churn_gaps' = GapsOf(touchpoint_gaps, ChurnOutcomes)
    /\ nodeal_gaps' = GapsOf(touchpoint_gaps, NoDealOutcomes)
    /\ speed_buckets' =
         SpeedBuckets([l \in Range(SpeedLabels) |-> <<>>], all_touchpoint_data, 1)
    /\ pc' = "done"
    /\ UNCHANGED <<idx, all_touchpoint_data, closed_won, churned, stalled, no_deal,
                   touchpoint_gaps, prev_date, prev_type, n_records>>
    /\ UNCHANGED <<metrics_vars, stage_vars>>
    /\ UNCHANGED customer_vars
    /\ UNCHANGED http_vars

Next ==
    \/ \E j \in Journeys : StartCustomer(j)
    \/ ContactNotFound
    \/ \E found \in Contacts : ContactFound(found)
    \/ \E e \in Engagements : FetchEngagement(e)
    \/ EngagementsDone
    \/ \E result \in SearchedDeals, res \in FoundDealIds : SearchDeals(result, res)
    \/ \E fetched \in Histories : FetchHistory(fetched)
    \/ FinishCustomer
    \/ Categorize
    \/ AnalyzeGaps
    \/ Report

Spec == Init /\ [][Next]_vars

\* ------------------------------------------------------------------------
\* The customer loop of main() over customers with two contacts
\* ------------------------------------------------------------------------

\* Customers with two contacts and a known deal.
TwoContactJourneys ==
    {[company |-> Bolt, contacts |-> <<ContactB, ContactA>>, all_deals |-> <<Deal1>>,
      deal_stage |-> DemoScheduled, first_touch |-> DayA, cognito_signup |-> DayB,
      source |-> s_OFFLINE]}

NextContacts ==
    \/ \E j \in TwoContactJourneys : StartCustomer(j)
    \/ ContactNotFound
    \/ \E found \in Contacts : ContactFound(found)
    \/ \E e \in Engagements : FetchEngagement(e)
    \/ EngagementsDone
    \/ \E result \in SearchedDeals, res \in FoundDealIds : SearchDeals(result, res)
    \/ \E fetched \in Histories : FetchHistory(fetched)
    \/ FinishCustomer

SpecContacts == Init /\ [][NextContacts]_vars

\* ------------------------------------------------------------------------
\* The customer loop of main() over customers whose contact has form
\* submissions
\* ------------------------------------------------------------------------

\* What get_contact_by_email may return for a contact with conversion events:
\* each name and date present or null, the recent date that of the first
\* conversion or a later one.
FormContacts ==
    {[id |-> "c3", properties |->
        [first_conversion_event_name |-> first_conv, first_conversion_date |-> first_date,
         recent_conversion_event_name |-> recent_conv,
         recent_conversion_date |-> recent_date]] :
       first_conv \in {None, s_Demo}, first_date \in {None, D1},
       recent_conv \in {None, s_Hi}, recent_date \in {None, D1, D2}}

\* Customers with one contact and no deal, under a name no deal is searched for.
FormJourneys ==
    {[company |-> Co, contacts |-> <<ContactA>>, all_deals |-> <<>>,
      deal_stage |-> NoDeal, first_touch |-> DayA, cognito_signup |-> DayB,
      source |-> s_OFFLINE]}

NextForms ==
    \/ \E j \in FormJourneys : StartCustomer(j)
    \/ ContactNotFound
    \/ \E found \in FormContacts : ContactFound(found)
    \/ \E e \in Engagements : FetchEngagement(e)
    \/ EngagementsDone
    \/ \E result \in SearchedDeals, res \in FoundDealIds : SearchDeals(result, res)
    \/ FinishCustomer

SpecForms == Init /\ [][NextForms]_vars

\* ------------------------------------------------------------------------
\* main() over customers whose contacts have sales activity: the customer
\* loop and the analysis after it
\* ------------------------------------------------------------------------

Mar15 ==
    <<"2", "0", "2", "4", "-", "0", "3", "-", "1", "5", "T", "1", "0", ":", "0", "0", ":", "0",
      "0", "Z">>

Mar20 ==
    <<"2", "0", "2", "4", "-", "0", "3", "-", "2", "0", "T", "1", "0", ":", "0", "0", ":", "0",
      "0", "Z">>

\* What get_contact_by_email may return for a contact with sales activity: the
\* contact's creation present or not, and its last sales activity and latest
\* meeting both present or both null.
GapContacts ==
    {[id |-> "c4", properties |->
        [createdate |-> hs_created, hs_last_sales_activity_date |-> activity[1],
         hs_latest_meeting_activity |-> activity[2]]] :
       hs_created \in {None, D1}, activity \in {<<None, None>>, <<Mar15, Mar20>>}}

\* Customers with one contact and no deal of their own, the contact with or
\* without a sign-up date.
GapJourneys ==
    {[company |-> Acme, contacts |-> <<ContactA>>, all_deals |-> <<>>,
      deal_stage |-> ClosedWon, first_touch |-> DayA, cognito_signup |-> DayB,
      source |-> s_PAID_SEARCH],
     [company |-> Bolt, contacts |-> <<ContactB>>, all_deals |-> <<>>,
      deal_stage |-> DemoScheduled, first_touch |-> DayA, cognito_signup |-> DayB,
      source |-> s_OFFLINE]}

\* The CRM finds no deal for any search.
NextGaps ==
    \/ \E j \in GapJourneys : StartCustomer(j)
    \/ ContactNotFound
    \/ \E found \in GapContacts : ContactFound(found)
    \/ \E e \in Engagements : FetchEngagement(e)
    \/ EngagementsDone
    \/ SearchDeals(<<>>, <<>>)
    \/ FinishCustomer
    \/ Categorize
    \/ AnalyzeGaps
    \/ Report

SpecGaps == Init /\ [][NextGaps]_vars

\* ------------------------------------------------------------------------
\* The analysis of main() on its own: the batch the customer loop has
\* produced is drawn from the records of sample customers
\* ------------------------------------------------------------------------

\* Customers of a drawn batch.
MaxBatch == 2

TwoDigits(n) == <<Digits[(n \div 10) + 1], Digits[(n % 10) + 1]>>

\* The date-only string of a day of 2024.
DateOf(m, d) == <<"2", "0", "2", "4", "-">> \o TwoDigits(m) \o <<"-">> \o TwoDigits(d)

OfficeDeal ==
    <<"O", "f", "f", "i", "c", "e", " ", "m", "o", "v", "e", "d", " ", "t", "o", ":", " ",
      "N", "Y", "C">>

RenewalDeal ==
    <<"C", "l", "o", "s", "e", "d", " ", "W", "o", "n", " ", "R", "e", "n", "e", "w", "a", "l">>

s_closedlost == <<"c", "l", "o", "s", "e", "d", "l", "o", "s", "t">>

s_decisionmakerboughtin ==
    <<"d", "e", "c", "i", "s", "i", "o", "n", "m", "a", "k", "e", "r", "b", "o", "u", "g", "h",
      "t", "i", "n">>

s_freemium_id == <<"1", "7", "3", "1", "1", "2", "2", "9", "0", "7">>

\* A deal of customer_journeys.json that carries its id.
KnownDeal(name, stage, created, closed, id) ==
    [name |-> name, stage |-> stage, amount |-> None, created |-> created,
     closed |-> closed, _id |-> id]

StageEntry(ts, value) == [timestamp |-> ts, value |-> value, sourceType |-> s_CRM_UI]

\* Sample customers: the journey and the property history of each of its deals.
\* Their first_touch to cognito_signup gaps are 0, 7, 8, 30, 31, 90 and 91 days,
\* negative, not computable and missing.
Samples ==
    {[journey |-> [company |-> Acme, contacts |-> <<>>, deal_stage |-> ClosedWon,
                   first_touch |-> DayA, cognito_signup |-> DayA, source |-> s_PAID_SEARCH,
                   all_deals |-> <<KnownDeal(AcmeDeal, ClosedWon, D1, D4, s_Id2)>>],
      histories |-> <<[dealstage |-> <<StageEntry(D1, s_presentationscheduled),
                                       StageEntry(D4, s_closedwon)>>,
                       amount |-> <<[timestamp |-> D2, value |-> s_500],
                                    [timestamp |-> D4]>>]>>],
     [journey |-> [company |-> Bolt, contacts |-> <<>>, deal_stage |-> Freemium,
                   first_touch |-> DayA, cognito_signup |-> DayB, source |-> s_OFFLINE,
                   all_deals |-> <<KnownDeal(BoltDeal, Freemium, D1, None, s_Id1)>>],
      histories |-> <<[dealstage |-> <<StageEntry(D1, s_presentationscheduled),
                                       StageEntry(D4, s_freemium_id)>>,
                       amount |-> <<>>]>>],
     [journey |-> [company |-> Bolt, contacts |-> <<>>, deal_stage |-> ClosedLost,
                   first_touch |-> D1, cognito_signup |-> D4, source |-> s_OFFLINE,
                   all_deals |-> <<KnownDeal(BoltDeal, ClosedLost, None, D2, s_Id1),
                                   KnownDeal(RenewalDeal, ClosedLost, None, D4, s_Id2)>>],
      histories |-> <<Histories_Empty, Histories_Empty>>],
     [journey |-> [company |-> Acme, contacts |-> <<>>, deal_stage |-> DemoScheduled,
                   first_touch |-> DayA, cognito_signup |-> DateOf(1, 31),
                   source |-> s_OFFLINE,
                   all_deals |-> <<KnownDeal(OfficeDeal, DemoFollowUp, D1, None, s_Id1)>>],
      histories |-> <<[dealstage |-> <<StageEntry(D1, s_presentationscheduled),
                                       StageEntry(D4, s_decisionmakerboughtin)>>,
                       amount |-> <<>>]>>],
     [journey |-> [company |-> Co, contacts |-> <<>>, deal_stage |-> NoDeal,
                   first_touch |-> DayB, cognito_signup |-> DayA, source |-> s_OFFLINE,
                   all_deals |-> <<>>],
      histories |-> <<>>],
     [journey |-> [company |-> Acme, contacts |-> <<>>, deal_stage |-> ClosedWon,
                   first_touch |-> DayA, cognito_signup |-> DateOf(2, 1),
                   source |-> s_OFFLINE,
                   all_deals |-> <<KnownDeal(AcmeDeal, ClosedWon, D1, None, s_Id2)>>],
      histories |-> <<Histories_Empty>>],
     [journey |-> [company |-> Bolt, contacts |-> <<>>, deal_stage |-> Churn,
                   first_touch |-> DayA, cognito_signup |-> DateOf(3, 31),
                   source |-> s_PAID_SEARCH,
                   all_deals |-> <<KnownDeal(BoltDeal, Churn, D1, D4, s_Id1)>>],
      histories |-> <<Histories_Empty>>],
     [journey |-> [company |-> Co, contacts |-> <<>>,
                   first_touch |-> DayA, cognito_signup |-> DateOf(4, 1)],
      histories |-> <<>>],
     [journey |-> [company |-> Acme, contacts |-> <<>>, deal_stage |-> OnHold,
                   first_touch |-> DayA, cognito_signup |-> D5, source |-> s_OFFLINE,
                   all_deals |-> <<KnownDeal(AcmeDeal, OnHold, D1, None, s_Id2)>>],
      histories |-> <<Histories_Empty>>],
     [journey |-> [company |-> Co, contacts |-> <<>>, deal_stage |-> Prospect,
                   cognito_signup |-> DayB, source |-> s_OFFLINE, all_deals |-> <<>>],
      histories |-> <<>>]}

\* The touchpoints of the deal histories: those of unique_deals[k..], in order
RECURSIVE HistoryTouchpoints(_, _, _)
HistoryTouchpoints(unique, histories, k) ==
    IF k > Len(unique) THEN <<>>
    ELSE StageTouchpoints(unique[k][1], histories[k].dealstage)
           \o AmountTouchpoints(unique[k][1], histories[k].amount)
           \o HistoryTouchpoints(unique, histories, k + 1)

\* The record the customer loop appends for a sample customer (no contacts, no
\* deal found by a search): the history and deal touchpoints, sorted and deduped
SampleRecord(s) ==
    LET known == Get(s.journey, "all_deals", <<>>)
    IN  CustomerRecord(s.journey,
                       Dedup(SortByDate(
                         HistoryTouchpoints(UniqueIds(DealIds(known), {}), s.histories, 1)
                           \o DealTouchpoints(known))),
                       <<>>)

SampleRecords == {SampleRecord(s) : s \in Samples}

\* The batches of one to MaxBatch sample customers.
Batches == UNION {[1..n -> SampleRecords] : n \in 1..MaxBatch}

\* main() after the customer loop over a drawn batch.
InitReport ==
    /\ pc = "next_customer"
    /\ all_touchpoint_data \in Batches
    /\ idx = Len(all_touchpoint_data)
    /\ journey = NoJourney
    /\ ci = 1
    /\ company_touchpoints = <<>>
    /\ company_contact_details = <<>>
    /\ engagements = <<>>
    /\ deals = <<>>
    /\ unique_deals = <<>>
    /\ di = 1
    /\ hs_contact = NoData
    /\ history = NoData
    /\ closed_won = <<>> /\ churned = <<>> /\ stalled = <<>> /\ no_deal = <<>>
    /\ won_metrics = NoData /\ churn_metrics = NoData
    /\ stall_metrics = NoData /\ nodeal_metrics = NoData
    /\ stage_sequence_counts = EmptyDict
    /\ last_stage_before_stall = EmptyDict
    /\ stages_seen = <<>>
    /\ touchpoint_gaps = <<>>
    /\ prev_date = None /\ prev_type = None
    /\ won_gaps = <<>> /\ stall_gaps = <<>> /\ churn_gaps = <<>> /\ nodeal_gaps = <<>>
    /\ speed_buckets = NoData
    /\ n_records = 0
    /\ h_pc = "idle"
    /\ h_attempts = 0
    /\ h_returned = TRUE
    /\ h_contact = NoData
    /\ h_ti = 1
    /\ all_engagements = <<>>

NextReport ==
    \/ Categorize
    \/ AnalyzeGaps
    \/ Report

SpecReport == InitReport /\ [][NextReport]_vars

\* ------------------------------------------------------------------------
\* The HTTP helpers, as the lookup of one contact uses them:
\* get_contact_by_email (hubspot_post) and get_contact_engagements (hubspot_get
\* once per association type)
\* ------------------------------------------------------------------------

\* The status that makes hubspot_get and hubspot_post sleep and call themselves.
RateLimited == 429

\* Requests one call may send before the model stops following it.
MaxAttempts == 3

\* What one urlopen may do: answer with a JSON body, raise HTTPError with a
\* status, or raise anything else (timeout, connection error).
Outcomes(bodies) ==
    {[kind |-> "ok", data |-> b] : b \in bodies}
      \cup {[kind |-> "http_error", code |-> c] : c \in {RateLimited, 500}}
      \cup {[kind |-> "error"]}

\* Bodies of the contact search and of an association listing.
ContactSearchBodies == {[results |-> <<>>], [results |-> <<[id |-> "c1"]>>], [total |-> 0]}

AssociationBodies ==
    {[results |-> <<>>], [results |-> <<[id |-> "e1"]>>],
     [results |-> <<[toObjectId |-> "e2"], [type |-> "contact_to_email"]>>]}

\* except HTTPError with e.code == 429: sleep 10 s, then the same call again
Retries(resp) == resp.kind = "http_error" /\ resp.code = RateLimited

\* What the call returns when it does not retry: the body, or None
Returned(resp) == IF resp.kind = "ok" THEN resp.data ELSE NoData

\* The request the call sends next is its first, or one more of a call that has
\* not returned.
NextAttempt ==
    /\ h_returned \/ h_attempts < MaxAttempts
    /\ h_attempts' = IF h_returned THEN 1 ELSE h_attempts + 1

\* main() looks a contact up
LookupContact ==
    /\ h_pc = "idle"
    /\ h_pc' = "post"
    /\ UNCHANGED <<h_attempts, h_returned, h_contact, h_ti, all_engagements>>
    /\ UNCHANGED main_vars

\* One request of hubspot_post within get_contact_by_email: on 429 the call
\* recurses; otherwise it returns and get_contact_by_email returns
\* results[0] or None.
hubspot_post(resp) ==
    /\ h_pc = "post"
    /\ NextAttempt
    /\ IF Retries(resp)
       THEN /\ h_returned' = FALSE
            /\ UNCHANGED <<h_pc, h_contact, h_ti, all_engagements>>
       ELSE LET result  == Returned(resp)
                results == Get(result, "results", <<>>)
                contact == IF results # <<>> THEN results[1] ELSE NoData
            IN  /\ h_returned' = TRUE
                /\ h_contact' = contact
                /\ h_pc' = IF contact = NoData THEN "done" ELSE "get"
                /\ h_ti' = 1
                /\ all_engagements' = <<>>
    /\ UNCHANGED main_vars

\* (eng_type, eng_id, eng_label) of the associations that carry an id
RECURSIVE Associations(_, _, _)
Associations(results, eng_type, eng_label) ==
    IF results = <<>> THEN <<>>
    ELSE LET assoc  == Head(results)
             id     == Get(assoc, "id", "")
             eng_id == IF id # "" THEN id ELSE Get(assoc, "toObjectId", "")
         IN  (IF eng_id # "" THEN <<<<eng_type, eng_id, eng_label>>>> ELSE <<>>)
               \o Associations(Tail(results), eng_type, eng_label)

\* One request of hubspot_get within get_contact_engagements: on 429 the call
\* recurses; otherwise it returns, its associations are collected and the loop
\* goes to the next association type.
hubspot_get(resp) ==
    /\ h_pc = "get"
    /\ h_ti <= Len(ENGAGEMENT_TYPES)
    /\ NextAttempt
    /\ IF Retries(resp)
       THEN /\ h_returned' = FALSE
            /\ UNCHANGED <<h_pc, h_ti, all_engagements>>
       ELSE LET data == Returned(resp)
                eng  == ENGAGEMENT_TYPES[h_ti]
            IN  /\ h_returned' = TRUE
                /\ all_engagements' =
                     all_engagements
                       \o Associations(Get(data, "results", <<>>), eng[1], eng[2])
                /\ h_ti' = h_ti + 1
                /\ h_pc' = IF h_ti = Len(ENGAGEMENT_TYPES) THEN "done" ELSE "get"
    /\ UNCHANGED h_contact
    /\ UNCHANGED main_vars

NextHttp ==
    \/ LookupContact
    \/ \E resp \in Outcomes(ContactSearchBodies) : hubspot_post(resp)
    \/ \E resp \in Outcomes(AssociationBodies) : hubspot_get(resp)

SpecHttp == Init /\ [][NextHttp]_vars

\* ------------------------------------------------------------------------
\* Properties
\* ------------------------------------------------------------------------

\* The output touchpoint sequences: one per customer record.
Outputs == {all_touchpoint_data[r].touchpoints : r \in 1..Len(all_touchpoint_data)}

\* A touchpoint has a valid date: present, non-empty and parsable.
Dated(tp) == Truthy(tp.date) /\ ParseDate(tp.date).ok

\* d1 denotes a later point in time than d2 (both parsable, both with or both
\* without a zone).
Later(d1, d2) ==
    LET p1 == ParseDate(d1)
        p2 == ParseDate(d2)
    IN  /\ p1.ok /\ p2.ok /\ p1.aware = p2.aware
        /\ \/ p1.secs > p2.secs
           \/ p1.secs = p2.secs /\ p1.ms > p2.ms

\* C1: in every customer record the touchpoints are in non-decreasing order of
\* the point in time their dates denote, and every touchpoint whose date is
\* missing, empty or unparsable comes after every touchpoint with a valid date.
\* The sort compares the date strings, so this fails for dates written with
\* different zones and for unparsable strings that are not empty.
C1_SortedByTime ==
    \A tps \in Outputs :
      \A i, j \in 1..Len(tps) :
        i < j =>
          /\ ~(Dated(tps[i]) /\ Dated(tps[j]) /\ Later(tps[i].date, tps[j].date))
          /\ ~(~Dated(tps[i]) /\ Dated(tps[j]))

\* C2: deduplication is idempotent: the dedup step applied to its own output
\* returns the same sequence, for the touchpoints of every customer record (each
\* is the output of the dedup step for the list the run collected and sorted).
C2_DedupIdempotent == \A tps \in Outputs : Dedup(tps) = tps

\* C2 witness: a customer was finished whose sorted list held duplicates, so the
\* dedup step dropped at least one touchpoint from the record.
C2_Witness ==
    /\ pc = "next_customer"
    /\ idx > 0
    /\ Len(all_touchpoint_data) > 0
    /\ all_touchpoint_data[Len(all_touchpoint_data)].total_touchpoints
         < Len(company_touchpoints)

\* Two dates fall in the same minute of time.
SameMinute(d1, d2) ==
    LET p1 == ParseDate(d1)
        p2 == ParseDate(d2)
    IN  /\ p1.ok /\ p2.ok /\ p1.aware = p2.aware
        /\ p1.secs \div 60 = p2.secs \div 60

\* Two touchpoints share the (minute, kind, detail-prefix) key.
SameMinuteKey(a, b) ==
    /\ SameMinute(a.date, b.date)
    /\ a.type = b.type
    /\ Prefix(a.detail, DetailKeyLen) = Prefix(b.detail, DetailKeyLen)

\* C3: no customer record holds two touchpoints whose timestamps fall in the same
\* minute and that have the same kind and the same detail prefix, and every
\* touchpoint of the sorted list has an entry with its key in the record.  The
\* key is the first 16 characters of the date string, so two dates of one minute
\* written with different zones are both kept.
C3_OnePerMinuteKey ==
    /\ \A tps \in Outputs :
         \A i, j \in 1..Len(tps) : i < j => ~SameMinuteKey(tps[i], tps[j])
    /\ (pc = "next_customer" /\ idx > 0) =>
         \A tp \in Range(company_touchpoints) :
           \E kept \in Range(all_touchpoint_data[Len(all_touchpoint_data)].touchpoints) :
             kept = tp \/ SameMinuteKey(kept, tp)

\* C4: no touchpoint of a customer record has a detail longer than the cap, taken
\* here as the largest max_len the code passes to truncate.  Only note and
\* communication bodies are truncated, and truncate appends the ellipsis to
\* max_len characters, so this fails.
C4_DetailWithinCap ==
    \A tps \in Outputs : \A tp \in Range(tps) : Len(tp.detail) <= NoteCap

\* The cohorts a record belongs to by its deal_stage.
Memberships(c) ==
    (IF InClosedWon(c) THEN {"closed_won"} ELSE {})
      \cup (IF InChurned(c) THEN {"churned"} ELSE {})
      \cup (IF InStalled(c) THEN {"stalled"} ELSE {})
      \cup (IF InNoDeal(c) THEN {"no_deal"} ELSE {})

\* The cohort lists that hold customer i.
ListsHolding(i) ==
    (IF i \in Range(closed_won) THEN {"closed_won"} ELSE {})
      \cup (IF i \in Range(churned) THEN {"churned"} ELSE {})
      \cup (IF i \in Range(stalled) THEN {"stalled"} ELSE {})
      \cup (IF i \in Range(no_deal) THEN {"no_deal"} ELSE {})

\* Values of deal_stage: every stage name of STAGE_MAP, the stages of the
\* journeys, a missing stage and the empty one.
AllStages ==
    {STAGE_MAP[k][2] : k \in 1..Len(STAGE_MAP)} \cup BareStages \cup {None, s_Unknown}

\* No value of deal_stage belongs to two cohorts.
StagesExclusive == \A st \in AllStages : Cardinality(Memberships([deal_stage |-> st])) <= 1

\* C5: the four cohorts are mutually exclusive: for every value of deal_stage a
\* customer belongs to at most one of Closed Won, Churned, Stalled-Active and
\* No Deal, and no customer is in two of the lists closed_won, churned, stalled,
\* no_deal.
C5_CohortsExclusive ==
    /\ StagesExclusive
    /\ \A i \in 1..Len(all_touchpoint_data) : Cardinality(ListsHolding(i)) <= 1

\* C5 witness: the cohorts were built and two of them hold a customer.
C5_Witness ==
    /\ pc = "done"
    /\ closed_won # <<>>
    /\ churned # <<>> \/ stalled # <<>> \/ no_deal # <<>>

\* C6 as stated: once the cohorts are built, every customer in none of
\* closed_won, churned and stalled is in no_deal.  A customer with a non-empty
\* stage outside the three buckets ("Prospect") is in no list at all.
C6_RestInNoDeal ==
    pc \in {"gaps", "report", "done"} =>
      \A i \in 1..Len(all_touchpoint_data) :
        i \notin Range(closed_won) \cup Range(churned) \cup Range(stalled) =>
          i \in Range(no_deal)

\* C6 amended: once the cohorts are built, a customer is in no_deal exactly when
\* its deal_stage is missing, empty or "No Deal", and is then in no other list; a
\* customer with any other stage outside Closed-Won, Churned and Stalled-Active
\* is in none of the four lists.
C6_NoDealCohort ==
    pc \in {"gaps", "report", "done"} =>
      \A i \in 1..Len(all_touchpoint_data) :
        LET st == all_touchpoint_data[i].deal_stage IN
        /\ i \in Range(no_deal) <=> (~Truthy(st) \/ st = NoDeal)
        /\ i \in Range(no_deal) => ListsHolding(i) = {"no_deal"}
        /\ (Truthy(st) /\ st # NoDeal
              /\ i \notin Range(closed_won) \cup Range(churned) \cup Range(stalled))
             => ListsHolding(i) = {}

\* C6 witness: the cohorts were built over a customer whose stage is "Prospect",
\* in no list, and a customer in no_deal.
C6_Witness ==
    /\ pc = "done"
    /\ no_deal # <<>>
    /\ \E i \in 1..Len(all_touchpoint_data) :
         all_touchpoint_data[i].deal_stage = Prospect /\ ListsHolding(i) = {}

\* The most gap records the customers data[i..] can give: one per touchpoint
\* after a customer's first.
RECURSIVE MostGaps(_, _)
MostGaps(data, i) ==
    IF i > Len(data) THEN 0
    ELSE (IF data[i].total_touchpoints > 1 THEN data[i].total_touchpoints - 1 ELSE 0)
           + MostGaps(data, i + 1)

\* C7: every record of touchpoint_gaps has gap_days > 0, and a customer with
\* zero or one touchpoint contributes no record: every gap record is of a
\* company that has a record with more than one touchpoint, and there are never
\* more gap records than touchpoints after the customers' first ones.
C7_PositiveGaps ==
    /\ \A g \in Range(touchpoint_gaps) : g.gap_days > 0
    /\ \A g \in Range(touchpoint_gaps) :
         \E k \in 1..Len(all_touchpoint_data) :
           /\ all_touchpoint_data[k].company = g.company
           /\ all_touchpoint_data[k].total_touchpoints > 1
    /\ Len(touchpoint_gaps) <= MostGaps(all_touchpoint_data, 1)

\* C7 witness: the gap walk is over, it recorded a gap, and one of the customers
\* it walked has exactly one touchpoint.
C7_Witness ==
    /\ pc = "done"
    /\ touchpoint_gaps # <<>>
    /\ \E i \in 1..Len(all_touchpoint_data) : all_touchpoint_data[i].total_touchpoints = 1

\* C8: a single malformed or absent field never aborts a customer: main() never
\* ends on an exception, so every customer's record is appended and the batch
\* goes on.  A call duration that is no integer, and a deal-stage-history entry
\* without a timestamp, both raise out of main().
C8_NeverAborts == pc # "aborted"

\* C9: one call of hubspot_get or hubspot_post sends at most two requests: the
\* first and one retry after a 429.  The call retries after every 429, so a
\* third request follows two 429 answers.
C9_AtMostTwoAttempts == h_attempts <= 2

\* Ids of the engagements of the CRM that have no timestamp of any kind.
NoTimestampIds ==
    {e.eng_id : e \in {x \in Engagements :
                         x.details # NoData /\ ~Truthy(EngagementTs(x.eng_type, x.details))}}

\* The engagement touchpoints of a list.
EngagementPoints(tps) == {tp \in Range(tps) : tp.source = "HubSpot Engagement"}

\* C10: no engagement touchpoint is ever emitted with a null or empty timestamp,
\* neither while a customer is collected nor in a record, and while all the
\* engagements fetched for a customer's first contact lack every timestamp
\* there is no engagement touchpoint at all.
C10_NoUndatedEngagement ==
    /\ \A tp \in EngagementPoints(company_touchpoints) : Truthy(tp.date)
    /\ \A tps \in Outputs : \A tp \in EngagementPoints(tps) : Truthy(tp.date)
    /\ (pc = "engagements" /\ ci = 1
          /\ \A k \in 1..Len(engagements) : engagements[k][2] \in NoTimestampIds)
         => EngagementPoints(company_touchpoints) = {}

\* C10 witness: an engagement without hs_timestamp, createdAt and start time was
\* fetched for the contact and left no touchpoint.
C10_Witness ==
    /\ pc = "engagements"
    /\ ci = 1
    /\ engagements # <<>>
    /\ \A k \in 1..Len(engagements) : engagements[k][2] \in NoTimestampIds
    /\ EngagementPoints(company_touchpoints) = {}

\* C11: no touchpoint of a customer record carries a date that is present but
\* unparsable: a touchpoint whose only basis is a malformed date field is
\* skipped.  The normalizer tests the date fields for truth only, so a lifecycle
\* date such as "03/01/2024" is emitted as it is.
C11_NoUnparsableDate ==
    \A tps \in Outputs : \A tp \in Range(tps) : Truthy(tp.date) => ParseDate(tp.date).ok

\* The touchpoints of a list that stand for a contact HubSpot does not know: the
\* only ones of source Cognito without a "contact" key.
NotFoundPoints(tps) ==
    SelectSeq(tps, LAMBDA tp : tp.source = "Cognito" /\ tp.contact = None)

\* Contacts of the current customer whose pass of the contact loop has begun.
ContactsTaken ==
    CASE pc = "contact" -> ci - 1
      [] pc = "engagements" -> ci
      [] OTHER -> Len(journey.contacts)

\* C12: a contact whose lookup returns no record gets exactly one touchpoint, of
\* kind "Platform Signup" and source Cognito, and nothing else: the step that
\* ends its pass of the contact loop appends that one touchpoint, adds no
\* contact-detail entry, fetches no engagement and asks the CRM for nothing
\* more, and leaves main() in the contact loop, so that the next contact or the
\* deals follow.  While a customer is collected, every contact taken so far has
\* either a contact-detail entry or one such touchpoint.
C12_NotFoundContact ==
    /\ [](pc \in {"contact", "engagements", "history"} =>
            /\ Len(NotFoundPoints(company_touchpoints)) + Len(company_contact_details)
                 = ContactsTaken
            /\ \A tp \in Range(NotFoundPoints(company_touchpoints)) :
                 tp.type = "Platform Signup")
    /\ [][(hs_contact' = NoData /\ ci' # ci /\ idx' = idx) =>
            /\ Len(company_touchpoints') = Len(company_touchpoints) + 1
            /\ SubSeq(company_touchpoints', 1, Len(company_touchpoints))
                 = company_touchpoints
            /\ NotFoundPoints(company_touchpoints')
                 = Append(NotFoundPoints(company_touchpoints),
                          company_touchpoints'[Len(company_touchpoints')])
            /\ UNCHANGED <<company_contact_details, engagements, n_records>>
            /\ pc' = "contact"
            /\ ci' = ci + 1]_vars

\* C12 witness: a customer was finished whose first contact was not found, whose
\* second contact was found, and whose deals gave touchpoints.
C12_Witness ==
    /\ pc = "next_customer"
    /\ idx > 0
    /\ Len(journey.contacts) = 2
    /\ LET c == all_touchpoint_data[Len(all_touchpoint_data)] IN
       /\ NotFoundPoints(c.touchpoints) # <<>>
       /\ c.contact_details # <<>>
       /\ c.contact_details[1].email = Lower(Strip(journey.contacts[2].email))
       /\ \E tp \in Range(c.touchpoints) : tp.source = "HubSpot Deal"

\* The deal names, stage labels and sources of the model's CRM.
DealNames == {AcmeDeal, BoltDeal, OfficeDeal, RenewalDeal}

StageLabels == {STAGE_MAP[k][2] : k \in 1..Len(STAGE_MAP)}

SourceTypes == {s_CRM_UI}

\* The "Deal Stage Change" touchpoints of a customer, in order.
StageChanges(c) == SelectSeq(c.touchpoints, LAMBDA tp : tp.type = "Deal Stage Change")

\* C13: once the falloff loop has run, the stages it extracted for the customer
\* it walked last are, one per "Deal Stage Change" touchpoint, exactly the
\* <stage> of each detail '"<deal name>" moved to: <stage> (via <source>)',
\* whatever the deal name and the stage label.
C13_ExtractsStage ==
    pc \in {"report", "done"} /\ all_touchpoint_data # <<>> =>
      LET changes == StageChanges(all_touchpoint_data[Len(all_touchpoint_data)])
      IN  /\ Len(stages_seen) = Len(changes)
          /\ \A k \in 1..Len(changes) :
               \A name \in DealNames, stage \in StageLabels, source \in SourceTypes :
                 changes[k].detail = StageDetail(name, stage, source)
                   => stages_seen[k][2] = stage

\* The first_touch to cognito_signup gap of a customer: <<d>>, or <<>> when a
\* date is missing or the gap cannot be computed.
SignupGap(c) ==
    IF Truthy(c.first_touch) /\ Truthy(c.cognito_signup)
    THEN days_between(c.first_touch, c.cognito_signup) ELSE <<>>

\* The labels under which customer i is listed in speed_buckets, once per listing.
BucketsHolding(i) ==
    {<<l, k>> \in Range(SpeedLabels) \X (1..Len(all_touchpoint_data)) :
       k <= Len(speed_buckets[l]) /\ speed_buckets[l][k] = i}

\* C14: in the report every customer whose first_touch to cognito_signup gap d
\* is computed and not negative is listed in exactly one speed bucket, "Same day
\* (0)" for d = 0, "1-7 days" for 1..7, "8-30 days" for 8..30, "31-90 days" for
\* 31..90 and "90+ days" above; every other customer is listed in none.
C14_SpeedBuckets ==
    pc = "done" =>
      \A i \in 1..Len(all_touchpoint_data) :
        LET d == SignupGap(all_touchpoint_data[i])
        IN  IF d # <<>> /\ d[1] >= 0
            THEN \E l \in Range(SpeedLabels), k \in 1..Len(all_touchpoint_data) :
                   /\ BucketsHolding(i) = {<<l, k>>}
                   /\ l = "Same day (0)" <=> d[1] = 0
                   /\ l = "1-7 days" <=> d[1] \in 1..7
                   /\ l = "8-30 days" <=> d[1] \in 8..30
                   /\ l = "31-90 days" <=> d[1] \in 31..90
                   /\ l = "90+ days" <=> d[1] > 90
            ELSE BucketsHolding(i) = {}

\* A customer with a gap of 7 days is listed under "1-7 days" next to a customer
\* with a negative gap.
C14_Witness ==
    /\ pc = "done"
    /\ \E i \in Range(speed_buckets["1-7 days"]) : SignupGap(all_touchpoint_data[i]) = <<7>>
    /\ \E i \in 1..Len(all_touchpoint_data) :
         /\ SignupGap(all_touchpoint_data[i]) # <<>>
         /\ SignupGap(all_touchpoint_data[i])[1] < 0

\* Where main() is during the analysis, once the cohorts are built.
Aggregating == pc \in {"gaps", "report", "done"}

\* What the analysis computes (prev_type aside, which changes only with pc).
Aggregates ==
    <<closed_won, churned, stalled, no_deal, metrics_vars, stage_vars, touchpoint_gaps,
      prev_date, report_vars>>

\* C15: the analysis starts only when every customer taken from the journeys
\* has its record - the sorted, deduplicated touchpoints - in
\* all_touchpoint_data; a step that changes a cohort, a metric, the stage
\* tables, the gaps or the report is taken with no customer in progress; and
\* no step of the analysis changes all_touchpoint_data.
C15_AggregationAfterNormalization ==
    /\ [](Aggregating =>
            /\ Len(all_touchpoint_data) = idx
            /\ \A c \in Range(all_touchpoint_data) :
                 c.touchpoints = Dedup(SortByDate(c.touchpoints)))
    /\ [][Aggregates' # Aggregates \/ (Aggregating' /\ pc' # pc) =>
            /\ pc \in {"next_customer", "gaps", "report"}
            /\ Len(all_touchpoint_data) = idx
            /\ all_touchpoint_data' = all_touchpoint_data]_vars
    /\ [][Aggregating => /\ all_touchpoint_data' = all_touchpoint_data
                         /\ Aggregating']_vars

\* The analysis has run over two customers with touchpoints.
C15_Witness ==
    /\ pc = "done"
    /\ Len(all_touchpoint_data) = MaxCustomers
    /\ \A c \in Range(all_touchpoint_data) : Len(c.touchpoints) > 1
    /\ touchpoint_gaps # <<>>

\* gap_days of the gap records picked, in order.
GapDays(picked) == [k \in 1..Len(picked) |-> picked[k].gap_days]

\* The customer a gap record stands for, as far as the cohorts look at it: its
\* outcome is the customer's deal_stage.
GapCustomer(g) == [deal_stage |-> g.outcome]

\* C16: in the report the gap list of each cohort holds the gaps of exactly the
\* customers of that cohort; in particular stall_gaps holds every gap of every
\* customer of the stalled cohort.
C16_GapsByCohort ==
    pc = "done" =>
      /\ won_gaps = GapDays(SelectSeq(touchpoint_gaps, LAMBDA g : InClosedWon(GapCustomer(g))))
      /\ churn_gaps = GapDays(SelectSeq(touchpoint_gaps, LAMBDA g : InChurned(GapCustomer(g))))
      /\ stall_gaps = GapDays(SelectSeq(touchpoint_gaps, LAMBDA g : InStalled(GapCustomer(g))))
      /\ nodeal_gaps = GapDays(SelectSeq(touchpoint_gaps, LAMBDA g : InNoDeal(GapCustomer(g))))

\* The touchpoints of one kind among tps.
OfKind(tps, kind) == SelectSeq(tps, LAMBDA tp : tp.type = kind)

\* The touchpoints a step appended to company_touchpoints.
Appended ==
    SubSeq(company_touchpoints', Len(company_touchpoints) + 1, Len(company_touchpoints'))

\* A step that fetches the history of a deal / that ends a customer.
HistoryStep == pc = "history" /\ di' = di + 1

FinishStep == pc = "history" /\ pc' # "history"

\* C17 as stated: the fetch of a deal's history appends one "Deal Stage
\* Change" touchpoint per dealstage entry and one "Deal Amount Changed"
\* touchpoint per amount entry, and at the end of a customer the collected
\* touchpoints hold one "Deal Created" and one "Deal Closed" per deal.
C17_OnePerEntryAndDeal ==
    /\ [][HistoryStep =>
            /\ Len(OfKind(Appended, "Deal Stage Change")) = Len(history'.dealstage)
            /\ Len(OfKind(Appended, "Deal Amount Changed")) = Len(history'.amount)]_vars
    /\ [][FinishStep =>
            /\ Len(OfKind(company_touchpoints', "Deal Created")) = Len(deals)
            /\ Len(OfKind(company_touchpoints', "Deal Closed")) = Len(deals)]_vars

\* C17, amended: one "Deal Stage Change" touchpoint per dealstage entry, one
\* "Deal Amount Changed" touchpoint per amount entry that has a value, and per
\* deal one "Deal Created" touchpoint if the deal has a created date and one
\* "Deal Closed" touchpoint if it has a closed date; nothing else is appended.
C17_PerEntryWithValue ==
    /\ [][HistoryStep =>
            /\ Len(OfKind(Appended, "Deal Stage Change")) = Len(history'.dealstage)
            /\ Len(OfKind(Appended, "Deal Amount Changed"))
                 = Len(SelectSeq(history'.amount, LAMBDA e : Truthy(Get(e, "value", <<>>))))
            /\ Len(Appended) = Len(OfKind(Appended, "Deal Stage Change"))
                                 + Len(OfKind(Appended, "Deal Amount Changed"))]_vars
    /\ [][FinishStep =>
            /\ Len(OfKind(company_touchpoints', "Deal Created"))
                 = Len(SelectSeq(deals, LAMBDA d : Truthy(Get(d, "created", None))))
            /\ Len(OfKind(company_touchpoints', "Deal Closed"))
                 = Len(SelectSeq(deals, LAMBDA d : Truthy(Get(d, "closed", None))))
            /\ Len(company_touchpoints') = Len(company_touchpoints)
                 + Len(OfKind(company_touchpoints', "Deal Created"))
                 + Len(OfKind(company_touchpoints', "Deal Closed"))]_vars

\* The first customer is finished: it has a deal without a closed date, and the
\* history fetched for it holds an amount entry without a value.
C17_Witness ==
    /\ pc = "next_customer"
    /\ idx = 1
    /\ Len(all_touchpoint_data) = 1
    /\ \E d \in Range(deals) : ~Truthy(Get(d, "closed", None))
    /\ history # NoData
    /\ \E e \in Range(history.amount) : ~Truthy(Get(e, "value", <<>>))

\* The metrics of the four cohorts.
CohortMetrics == {won_metrics, churn_metrics, stall_metrics, nodeal_metrics}

\* Twice the median of the counts (Len(counts) > 0): the middle value twice, or
\* the sum of the two middle values.
TwiceMedian(counts) ==
    LET sorted == Sorted(counts)
        n      == Len(counts)
    IN  IF n % 2 = 1 THEN 2 * sorted[(n + 1) \div 2]
        ELSE sorted[n \div 2] + sorted[(n \div 2) + 1]

\* C18: the median_touchpoints of every cohort with customers is the median of
\* the cohort's touchpoint counts, for a cohort of odd and of even size.
C18_MedianOfCounts ==
    pc \in {"gaps", "report", "done"} =>
      \A m \in CohortMetrics :
        m.count > 0 => 2 * m.median_touchpoints = TwiceMedian(m.touchpoint_counts)

\* The amounts of the model's deals.
Amounts == {None, s_500}

\* tp records that a deal was closed with the final stage given.
ClosedTo(tp, stage) ==
    /\ tp.type = "Deal Closed"
    /\ \E name \in DealNames, amount \in Amounts :
         tp.detail = s_Quote \o name \o s_closed_Final \o stage
                       \o (IF Truthy(amount) THEN s_Dollar \o amount ELSE <<>>)

\* The close date the claim describes: that of the first touchpoint of a deal
\* closed to Closed Won, else that of the first "Deal Closed" touchpoint.
StatedCloseDate(tps) ==
    LET won == FirstDate(tps, {k \in 1..Len(tps) : ClosedTo(tps[k], ClosedWon)})
    IN  IF Truthy(won) THEN won
        ELSE FirstDate(tps, {k \in 1..Len(tps) : tps[k].type = "Deal Closed"})

\* The days to close of a group's customers with that close date.
StatedCloseDays(group) ==
    Flatten([k \in 1..Len(group) |->
               IF Truthy(group[k].first_touch) /\ Truthy(StatedCloseDate(group[k].touchpoints))
               THEN NotNegative(days_between(group[k].first_touch,
                                             StatedCloseDate(group[k].touchpoints)))
               ELSE <<>>])

\* C19: the close_days of every cohort are the days from first touch to the
\* date of the customer's first touchpoint of a deal closed to Closed Won, or,
\* without one, of the first "Deal Closed" touchpoint; a customer without a
\* "Deal Closed" touchpoint adds nothing.
C19_CloseDate ==
    pc \in {"gaps", "report", "done"} =>
      /\ won_metrics.close_days = StatedCloseDays(Group(all_touchpoint_data, closed_won))
      /\ churn_metrics.close_days = StatedCloseDays(Group(all_touchpoint_data, churned))
      /\ stall_metrics.close_days = StatedCloseDays(Group(all_touchpoint_data, stalled))
      /\ nodeal_metrics.close_days = StatedCloseDays(Group(all_touchpoint_data, no_deal))

\* The customers of a group with both dates and a computed gap >= 0.
Qualifying(group) ==
    SelectSeq(group, LAMBDA c : SignupGap(c) # <<>> /\ SignupGap(c)[1] >= 0)

\* avg is the mean of the signup gaps of the group's qualifying customers, 0
\* when there is none.
MeanOfQualifying(avg, group) ==
    LET q == Qualifying(group)
    IN  /\ avg.den > 0
        /\ IF q = <<>> THEN avg.num = 0
           ELSE avg.num * Len(q) = avg.den * Sum([k \in 1..Len(q) |-> SignupGap(q[k])[1]])

\* C20: the avg_days_to_signup of every cohort is the mean of the first_touch to
\* cognito_signup gaps over exactly the cohort's customers that have both dates
\* and a computed gap >= 0, and 0 when the cohort has no such customer.
C20_MeanDaysToSignup ==
    pc \in {"gaps", "report", "done"} =>
      /\ MeanOfQualifying(won_metrics.avg_days_to_signup,
                          Group(all_touchpoint_data, closed_won))
      /\ MeanOfQualifying(churn_metrics.avg_days_to_signup,
                          Group(all_touchpoint_data, churned))
      /\ MeanOfQualifying(stall_metrics.avg_days_to_signup,
                          Group(all_touchpoint_data, stalled))
      /\ MeanOfQualifying(nodeal_metrics.avg_days_to_signup,
                          Group(all_touchpoint_data, no_deal))

\* A cohort of two customers, one with a negative gap and one with a gap of 91
\* days, has the mean 91.
C20_Witness ==
    /\ pc = "done"
    /\ nodeal_metrics.count = 2
    /\ \E c \in Range(Group(all_touchpoint_data, no_deal)) :
         SignupGap(c) # <<>> /\ SignupGap(c)[1] < 0
    /\ nodeal_metrics.signup_days = <<91>>
    /\ nodeal_metrics.avg_days_to_signup = Quotient(91, 1)

\* A step in which get_contact_by_email has found the current contact.
ContactStep == pc = "contact" /\ pc' = "engagements"

\* C21: of the touchpoints appended for a contact found in HubSpot, a "First
\* Form Submission" is there only if first_conversion_date is present and
\* carries that date, a "Form Submission" only if recent_conversion_date is
\* present, carries that date and differs from first_conversion_date, and
\* there is at most one of each.
C21_FormSubmissions ==
    [][ContactStep =>
         LET props  == hs_contact'.properties
             first  == OfKind(Appended, "First Form Submission")
             recent == OfKind(Appended, "Form Submission")
         IN  /\ Len(first) <= 1
             /\ Len(recent) <= 1
             /\ first # <<>> =>
                  /\ Truthy(Get(props, "first_conversion_date", None))
                  /\ first[1].date = props.first_conversion_date
             /\ recent # <<>> =>
                  /\ Truthy(Get(props, "recent_conversion_date", None))
                  /\ recent[1].date = props.recent_conversion_date
                  /\ props.recent_conversion_date # Get(props, "first_conversion_date", None)
             /\ \A tp \in Range(Appended) :
                  tp.source = "HubSpot Forms"
                    => tp.type \in {"First Form Submission", "Form Submission"}]_vars

\* A contact was found whose two conversions are named and carry the same date:
\* the customer's touchpoints hold the first form submission and no other.
C21_Witness ==
    /\ pc = "engagements"
    /\ hs_contact # NoData
    /\ Truthy(Get(hs_contact.properties, "first_conversion_event_name", None))
    /\ Truthy(Get(hs_contact.properties, "recent_conversion_event_name", None))
    /\ Truthy(Get(hs_contact.properties, "first_conversion_date", None))
    /\ Get(hs_contact.properties, "recent_conversion_date", None)
         = hs_contact.properties.first_conversion_date
    /\ Len(OfKind(company_touchpoints, "First Form Submission")) = 1
    /\ OfKind(company_touchpoints, "Form Submission") = <<>>


\* The positions, in order, of the touchpoints of customer c the gap walk takes:
\* those with a date and a kind outside the excluded kinds.
Walked(c) ==
    SelectSeq([k \in 1..Len(c.touchpoints) |-> k],
              LAMBDA k : Truthy(c.touchpoints[k].date)
                         /\ c.touchpoints[k].type \notin GapExcluded)

\* The gap record of the touchpoints from and to of customer c, if the days
\* between them can be computed and are more than zero.
PairGap(c, from, to) ==
    IF days_between(from.date, to.date) = <<>> THEN <<>>
    ELSE IF days_between(from.date, to.date)[1] > 0
    THEN <<[company |-> c.company, gap_days |-> days_between(from.date, to.date)[1],
            from_type |-> from.type, to_type |-> to.type, outcome |-> c.deal_stage]>>
    ELSE <<>>

\* The gap records of customer c taken alone: one for each walked touchpoint
\* and the walked touchpoint nearest before it.
CustomerGaps(c) ==
    Flatten([k \in 1..(Len(Walked(c)) - 1) |->
               PairGap(c, c.touchpoints[Walked(c)[k]], c.touchpoints[Walked(c)[k + 1]])])

\* The falloff loop has run.
GapsAnalyzed == pc \in {"report", "done"}

\* C22: every gap record describes two touchpoints of one customer: its company
\* is that customer, its to_type is the kind of a dated touchpoint of that
\* customer outside the excluded kinds, and its from_type is the kind of the
\* nearest dated, non-excluded touchpoint before it of the same customer.
\* Nothing is carried from one customer to the next: whatever the customers and
\* their order, touchpoint_gaps is the gap records of each customer taken
\* alone, one customer after the other.
C22_GapsWithinCustomer ==
    GapsAnalyzed =>
      /\ \A g \in Range(touchpoint_gaps) :
           \E i \in 1..Len(all_touchpoint_data) :
             \E k \in 1..(Len(Walked(all_touchpoint_data[i])) - 1) :
               /\ g.company = all_touchpoint_data[i].company
               /\ g.from_type = all_touchpoint_data[i].touchpoints[
                                  Walked(all_touchpoint_data[i])[k]].type
               /\ g.to_type = all_touchpoint_data[i].touchpoints[
                                Walked(all_touchpoint_data[i])[k + 1]].type
               /\ g.to_type \notin GapExcluded
               /\ g.from_type \notin GapExcluded
      /\ touchpoint_gaps =
           Flatten([i \in 1..Len(all_touchpoint_data) |->
                      CustomerGaps(all_touchpoint_data[i])])

\* C22 witness: the falloff loop has run over two customers in a row, the first
\* walked touchpoint of the second lies days after the last walked one of the
\* first, and a gap record of the second pairs two touchpoints that have a
\* touchpoint of an excluded kind between them.
C22_Witness ==
    /\ pc = "done"
    /\ \E i \in 1..(Len(all_touchpoint_data) - 1) :
         /\ Walked(all_touchpoint_data[i]) # <<>>
         /\ Walked(all_touchpoint_data[i + 1]) # <<>>
         /\ PairGap(all_touchpoint_data[i + 1],
                    all_touchpoint_data[i].touchpoints[
                      Walked(all_touchpoint_data[i])[Len(Walked(all_touchpoint_data[i]))]],
                    all_touchpoint_data[i + 1].touchpoints[
                      Walked(all_touchpoint_data[i + 1])[1]]) # <<>>
         /\ \E k \in 1..(Len(Walked(all_touchpoint_data[i + 1])) - 1) :
              /\ Walked(all_touchpoint_data[i + 1])[k + 1]
                   > Walked(all_touchpoint_data[i + 1])[k] + 1
              /\ all_touchpoint_data[i + 1].touchpoints[
                   Walked(all_touchpoint_data[i + 1])[k] + 1].type \in GapExcluded
              /\ PairGap(all_touchpoint_data[i + 1],
                         all_touchpoint_data[i + 1].touchpoints[
                           Walked(all_touchpoint_data[i + 1])[k]],
                         all_touchpoint_data[i + 1].touchpoints[
                           Walked(all_touchpoint_data[i + 1])[k + 1]])
                   \in {<<g>> : g \in Range(touchpoint_gaps)}

=============================================================================
